---- MODULE Spec2Model ----
(***************************************************************************)
(* Model of go-iokit-powertelemetry: the record reader                     *)
(* (get_all_battery_info, C), the field mapping (GetBatteryInfo, Go) and   *)
(* the derived metrics (calculateDerivedMetrics of package power,          *)
(* calculateHealthMetrics of package iokit).                               *)
(*                                                                         *)
(* Go's float64 is IEEE-754 binary64.  TLC's integers are 32 bits wide, so *)
(* a finite float64 is the record [k, s, m, e] for s * m * 2^e with s the  *)
(* sign (1 or -1), m an odd natural number below 2^53 held as a            *)
(* little-endian sequence of 12-bit limbs (<<>> is zero) and e an integer. *)
(* Every operation computes the exact result and rounds it once to 53 bits *)
(* (round to nearest, ties to even), as the hardware does.  The field k    *)
(* tells a finite value from an infinity and a NaN.  Exponent overflow and *)
(* subnormals are outside the value ranges the model reaches and are not   *)
(* represented.                                                            *)
(***************************************************************************)
EXTENDS Integers, Sequences, FiniteSets, TLC

\* ------------------------------------------------------------------------
\* The build of the program: its GOARCH, with the GOAMD64 level where that
\* matters.  It is part of the state and never changes.
\* ------------------------------------------------------------------------
VARIABLE build

\* The builds of a darwin program.  The Go specification lets a compiler
\* fuse x*y + z into one operation with one rounding, across statements
\* too: the arm64 compiler does (FMADDD), the amd64 one from GOAMD64=v3 on.
\* It leaves the conversion of a float64 outside the range of int to the
\* implementation as well.
Builds == {"amd64", "amd64.v3", "arm64"}
FusesMultiplyAdd == build \in {"amd64.v3", "arm64"}

\* ------------------------------------------------------------------------
\* Natural numbers of arbitrary size: little-endian sequences of limbs.
\* ------------------------------------------------------------------------
LimbBits == 12
Base == 4096
Precision == 53

Min2(a, b) == IF a < b THEN a ELSE b
Max2(a, b) == IF a > b THEN a ELSE b
Abs(n) == IF n < 0 THEN -n ELSE n

RECURSIVE BitLenInt(_)
BitLenInt(n) == IF n = 0 THEN 0 ELSE 1 + BitLenInt(n \div 2)

RECURSIVE TrailingZerosInt(_)
TrailingZerosInt(n) == IF n % 2 = 1 THEN 0 ELSE 1 + TrailingZerosInt(n \div 2)

RECURSIVE BStrip(_)
BStrip(x) ==
    IF x = <<>> THEN x
    ELSE IF x[Len(x)] = 0 THEN BStrip(SubSeq(x, 1, Len(x) - 1)) ELSE x

RECURSIVE BFromNat(_)
BFromNat(n) == IF n = 0 THEN <<>> ELSE <<n % Base>> \o BFromNat(n \div Base)

RECURSIVE BToNat(_)
BToNat(x) == IF x = <<>> THEN 0 ELSE x[1] + Base * BToNat(Tail(x))

Limb(x, i) == IF i <= Len(x) THEN x[i] ELSE 0

BBitLen(x) ==
    IF x = <<>> THEN 0 ELSE LimbBits * (Len(x) - 1) + BitLenInt(x[Len(x)])

BIsOdd(x) == x # <<>> /\ x[1] % 2 = 1

RECURSIVE BAddFrom(_, _, _, _)
BAddFrom(x, y, i, c) ==
    IF i > Len(x) /\ i > Len(y) THEN (IF c = 0 THEN <<>> ELSE <<c>>)
    ELSE LET s == Limb(x, i) + Limb(y, i) + c
         IN  <<s % Base>> \o BAddFrom(x, y, i + 1, s \div Base)

BAdd(x, y) == BAddFrom(x, y, 1, 0)

RECURSIVE BSubFrom(_, _, _, _)
BSubFrom(x, y, i, b) ==
    IF i > Len(x) THEN <<>>
    ELSE LET d == Limb(x, i) - Limb(y, i) - b
         IN  IF d < 0 THEN <<d + Base>> \o BSubFrom(x, y, i + 1, 1)
             ELSE <<d>> \o BSubFrom(x, y, i + 1, 0)

\* x - y for x >= y
BSub(x, y) == BStrip(BSubFrom(x, y, 1, 0))

RECURSIVE BCmpAt(_, _, _)
BCmpAt(x, y, i) ==
    IF i = 0 THEN 0
    ELSE IF x[i] < y[i] THEN -1
    ELSE IF x[i] > y[i] THEN 1
    ELSE BCmpAt(x, y, i - 1)

\* -1, 0, 1 as x <, =, > y
BCmp(x, y) ==
    IF Len(x) < Len(y) THEN -1
    ELSE IF Len(x) > Len(y) THEN 1
    ELSE BCmpAt(x, y, Len(x))

RECURSIVE BMulSmallFrom(_, _, _, _)
BMulSmallFrom(x, k, i, c) ==
    IF i > Len(x) THEN BFromNat(c)
    ELSE LET p == x[i] * k + c
         IN  <<p % Base>> \o BMulSmallFrom(x, k, i + 1, p \div Base)

\* x * k for 0 <= k < 2^19
BMulSmall(x, k) == IF k = 0 \/ x = <<>> THEN <<>> ELSE BMulSmallFrom(x, k, 1, 0)

RECURSIVE BDivSmallAt(_, _, _, _)
BDivSmallAt(x, d, i, r) ==
    IF i = 0 THEN [q |-> <<>>, r |-> r]
    ELSE LET cur  == r * Base + x[i]
             rest == BDivSmallAt(x, d, i - 1, cur % d)
         IN  [q |-> Append(rest.q, cur \div d), r |-> rest.r]

\* quotient and remainder of x by d, 0 < d < 2^19
BDivSmall(x, d) ==
    LET qr == BDivSmallAt(x, d, Len(x), 0) IN [q |-> BStrip(qr.q), r |-> qr.r]

RECURSIVE BColumn(_, _, _, _)
BColumn(x, y, k, i) ==
    IF i > Len(x) \/ i > k THEN 0
    ELSE x[i] * y[k + 1 - i] + BColumn(x, y, k, i + 1)

RECURSIVE BMulFrom(_, _, _, _)
BMulFrom(x, y, k, c) ==
    IF k > Len(x) + Len(y) - 1 THEN BFromNat(c)
    ELSE LET s == BColumn(x, y, k, Max2(1, k + 1 - Len(y))) + c
         IN  <<s % Base>> \o BMulFrom(x, y, k + 1, s \div Base)

BMul(x, y) == IF x = <<>> \/ y = <<>> THEN <<>> ELSE BMulFrom(x, y, 1, 0)

\* x * 2^n
BShl(x, n) ==
    IF x = <<>> THEN <<>>
    ELSE [i \in 1..(n \div LimbBits) |-> 0] \o BMulSmall(x, 2^(n % LimbBits))

\* floor(x / 2^n), and whether a one bit was shifted out
BShr(x, n) ==
    LET w  == n \div LimbBits
        hi == IF w >= Len(x) THEN <<>> ELSE SubSeq(x, w + 1, Len(x))
        d  == BDivSmall(hi, 2^(n % LimbBits))
    IN  [q  |-> d.q,
         st |-> d.r # 0 \/ \E i \in 1..Min2(w, Len(x)) : x[i] # 0]

RECURSIVE BFirstNonZero(_, _)
BFirstNonZero(x, i) == IF x[i] # 0 THEN i ELSE BFirstNonZero(x, i + 1)

\* number of trailing zero bits of x # 0
BTrailingZeros(x) ==
    LET i == BFirstNonZero(x, 1)
    IN  LimbBits * (i - 1) + TrailingZerosInt(x[i])

\* ------------------------------------------------------------------------
\* C long and Go int on darwin (arm64, amd64): 64 bits, two's complement.
\* The cell voltages are the integers the code does integer arithmetic on
\* (drift := maxV - minV); they are held as [s, m]: sign and magnitude, the
\* magnitude a natural number as above, zero with the sign 1.
\* ------------------------------------------------------------------------
Long(n) == [s |-> IF n < 0 THEN -1 ELSE 1, m |-> BFromNat(Abs(n))]

MaxInt64 == [s |-> 1, m |-> BSub(BShl(<<1>>, 63), <<1>>)]
MinInt64 == [s |-> -1, m |-> BShl(<<1>>, 63)]

\* -1, 0, 1 as a <, =, > b
LongCmp(a, b) ==
    IF a.s # b.s THEN (IF a.s < b.s THEN -1 ELSE 1)
    ELSE a.s * BCmp(a.m, b.m)

LongLess(a, b) == LongCmp(a, b) < 0
LongLe(a, b) == LongCmp(a, b) <= 0

LongNeg(a) == IF a.m = <<>> THEN a ELSE [a EXCEPT !.s = -a.s]

\* a + b of the integers, not yet cut to 64 bits
LongSum(a, b) ==
    IF a.s = b.s THEN [s |-> a.s, m |-> BAdd(a.m, b.m)]
    ELSE LET c == BCmp(a.m, b.m)
         IN  IF c = 0 THEN [s |-> 1, m |-> <<>>]
             ELSE IF c > 0 THEN [s |-> a.s, m |-> BSub(a.m, b.m)]
             ELSE [s |-> b.s, m |-> BSub(b.m, a.m)]

\* the 64-bit two's complement value of x, for x within -2^64 .. 2^64
LongWrap(x) ==
    LET TwoTo64 == [s |-> 1, m |-> BShl(<<1>>, 64)]
    IN  IF LongLess(MaxInt64, x) THEN LongSum(x, LongNeg(TwoTo64))
        ELSE IF LongLess(x, MinInt64) THEN LongSum(x, TwoTo64)
        ELSE x

\* Go's a - b on int: wraps around
LongSub(a, b) == LongWrap(LongSum(a, LongNeg(b)))

\* ------------------------------------------------------------------------
\* float64: [k, s, m, e].  k is "fin" for the finite value s * m * 2^e (m
\* odd, or <<>> with e = 0 for a zero, which keeps its sign), "inf" for an
\* infinity of sign s and "nan" for a NaN.
\* ------------------------------------------------------------------------
FZero(s) == [k |-> "fin", s |-> s, m |-> <<>>, e |-> 0]
FInf(s) == [k |-> "inf", s |-> s, m |-> <<>>, e |-> 0]
FNaN == [k |-> "nan", s |-> 1, m |-> <<>>, e |-> 0]

FIsZero(a) == a.k = "fin" /\ a.m = <<>>

\* s * M * 2^E for M of at most 53 bits
FCanon(s, M, E) ==
    IF M = <<>> THEN FZero(s)
    ELSE LET tz == BTrailingZeros(M)
         IN  [k |-> "fin", s |-> s, m |-> BShr(M, tz).q, e |-> E + tz]

\* s * (M + f) * 2^E rounded to nearest, ties to even, where 0 < f < 1 if
\* sticky and f = 0 otherwise; M has at least 54 bits when sticky.
FPack(s, M, E, sticky) ==
    LET L == BBitLen(M)
    IN  IF L <= Precision THEN FCanon(s, M, E)
        ELSE LET sh == L - Precision
                 t  == BShr(M, sh - 1)
                 q  == BShr(t.q, 1).q
                 up == BIsOdd(t.q) /\ (t.st \/ sticky \/ BIsOdd(q))
             IN  FCanon(s, IF up THEN BAdd(q, <<1>>) ELSE q, E + sh)

\* float64(n)
FFromInt(n) == FCanon(IF n < 0 THEN -1 ELSE 1, BFromNat(Abs(n)), 0)

\* the literal n * 2^-1 (2.5 is FHalves(5))
FHalves(n) == FCanon(IF n < 0 THEN -1 ELSE 1, BFromNat(Abs(n)), -1)

FNeg(a) == [a EXCEPT !.s = -a.s]

\* a * b
FMul(a, b) ==
    IF a.k = "nan" \/ b.k = "nan" THEN FNaN
    ELSE IF a.k = "inf" \/ b.k = "inf"
    THEN (IF FIsZero(a) \/ FIsZero(b) THEN FNaN ELSE FInf(a.s * b.s))
    ELSE IF a.m = <<>> \/ b.m = <<>> THEN FZero(a.s * b.s)
    ELSE FPack(a.s * b.s, BMul(a.m, b.m), a.e + b.e, FALSE)

\* a / b, the odd part of b below 2^19
FDiv(a, b) ==
    IF a.k = "nan" \/ b.k = "nan" THEN FNaN
    ELSE IF a.k = "inf"
    THEN (IF b.k = "inf" THEN FNaN ELSE FInf(a.s * b.s))
    ELSE IF b.k = "inf" THEN FZero(a.s * b.s)
    ELSE IF b.m = <<>>
    THEN (IF a.m = <<>> THEN FNaN ELSE FInf(a.s * b.s))
    ELSE IF a.m = <<>> THEN FZero(a.s * b.s)
    ELSE LET n  == Max2(0, BBitLen(b.m) + Precision + 2 - BBitLen(a.m))
             qr == BDivSmall(BShl(a.m, n), BToNat(b.m))
         IN  FPack(a.s * b.s, qr.q, a.e - b.e - n, qr.r # 0)

\* a + b
FAdd(a, b) ==
    IF a.k = "nan" \/ b.k = "nan" THEN FNaN
    ELSE IF a.k = "inf"
    THEN (IF b.k = "inf" /\ a.s # b.s THEN FNaN ELSE a)
    ELSE IF b.k = "inf" THEN b
    ELSE IF a.m = <<>> /\ b.m = <<>> THEN FZero(IF a.s = b.s THEN a.s ELSE 1)
    ELSE IF a.m = <<>> THEN b
    ELSE IF b.m = <<>> THEN a
    ELSE LET e0 == Min2(a.e, b.e)
             x  == BShl(a.m, a.e - e0)
             y  == BShl(b.m, b.e - e0)
             c  == BCmp(x, y)
         IN  IF a.s = b.s THEN FPack(a.s, BAdd(x, y), e0, FALSE)
             ELSE IF c = 0 THEN FZero(1)
             ELSE IF c > 0 THEN FPack(a.s, BSub(x, y), e0, FALSE)
             ELSE FPack(b.s, BSub(y, x), e0, FALSE)

\* a - b
FSub(a, b) == FAdd(a, FNeg(b))

\* a * b + c with one rounding: the exact product enters the sum
FFma(a, b, c) ==
    IF a.k # "fin" \/ b.k # "fin" \/ c.k # "fin" THEN FAdd(FMul(a, b), c)
    ELSE IF a.m = <<>> \/ b.m = <<>> \/ c.m = <<>> THEN FAdd(FMul(a, b), c)
    ELSE FAdd([k |-> "fin", s |-> a.s * b.s,
               m |-> BMul(a.m, b.m), e |-> a.e + b.e], c)

\* x*y + z as the build computes it
MultiplyAdd(x, y, z) ==
    IF FusesMultiplyAdd THEN FFma(x, y, z) ELSE FAdd(FMul(x, y), z)

\* math.Trunc: the integer part, toward zero
FTrunc(a) ==
    IF a.k # "fin" \/ a.e >= 0 THEN a
    ELSE FCanon(a.s, BShr(a.m, -a.e).q, 0)

\* math.Round: the nearest integer, halves away from zero
FRound(a) ==
    IF a.k # "fin" \/ a.e >= 0 THEN a
    ELSE IF BBitLen(a.m) + a.e < 0 THEN FZero(a.s)
    ELSE FCanon(a.s, BShr(BAdd(a.m, BShl(<<1>>, -a.e - 1)), -a.e).q, 0)

\* int(a): the fraction is discarded.  The result is an integer where its
\* magnitude is below 2^31 and a Long beyond.  Go leaves the conversion of
\* a NaN, an infinity or a value outside int64 to the implementation:
\* CVTTSD2SQ of amd64 gives the least int64 for all of them, FCVTZS of
\* arm64 gives 0 for a NaN and the nearest int64 otherwise.
FToInt(a) ==
    LET t == FTrunc(a)
        outside == \/ a.k = "inf"
                   \/ BBitLen(t.m) + t.e > 64
                   \/ /\ BBitLen(t.m) + t.e = 64
                      /\ ~(t.s = -1 /\ t.m = <<1>>)
        M == BShl(t.m, t.e)
    IN  IF a.k = "nan" THEN (IF build = "arm64" THEN Long(0) ELSE MinInt64)
        ELSE IF outside
        THEN (IF build = "arm64" /\ a.s = 1 THEN MaxInt64 ELSE MinInt64)
        ELSE IF BBitLen(M) > 31 THEN [s |-> t.s, m |-> M]
        ELSE t.s * BToNat(M)

\* -1, 0, 1 as |a| <, =, > |b| for finite a and b
FCmpAbs(a, b) ==
    IF a.m = <<>> \/ b.m = <<>>
    THEN (IF a.m = b.m THEN 0 ELSE IF a.m = <<>> THEN -1 ELSE 1)
    ELSE LET ta == BBitLen(a.m) + a.e
             tb == BBitLen(b.m) + b.e
             e0 == Min2(a.e, b.e)
         IN  IF ta < tb THEN -1
             ELSE IF ta > tb THEN 1
             ELSE BCmp(BShl(a.m, a.e - e0), BShl(b.m, b.e - e0))

\* a <= b for finite a and b (zeros of either sign are equal)
FLe(a, b) ==
    IF a.m = <<>> /\ b.m = <<>> THEN TRUE
    ELSE IF a.m = <<>> THEN b.s = 1
    ELSE IF b.m = <<>> THEN a.s = -1
    ELSE IF a.s # b.s THEN a.s = -1
    ELSE IF a.s = 1 THEN FCmpAbs(a, b) <= 0
    ELSE FCmpAbs(a, b) >= 0

\* a == b in Go: zeros of either sign are equal
FEq(a, b) ==
    IF a.k = "nan" \/ b.k = "nan" THEN FALSE
    ELSE IF a.k = "inf" \/ b.k = "inf" THEN a.k = b.k /\ a.s = b.s
    ELSE FLe(a, b) /\ FLe(b, a)

\* ------------------------------------------------------------------------
\* CoreFoundation values of the registry: [t |-> type, v |-> payload].
\* A dictionary's payload is a function from its keys to values, an
\* array's a sequence of values.  A key the dictionary lacks is outside the
\* function's domain (CFDictionaryGetValue returns NULL).
\* ------------------------------------------------------------------------
Null == [t |-> "null", v |-> 0]
Num(n) == [t |-> "num", v |-> n]
\* a number beyond TLC's integers, as it stands under the CellVoltage key
Num64(x) == [t |-> "num", long |-> x]
Bool(b) == [t |-> "bool", v |-> b]
Str(s) == [t |-> "str", v |-> s]
Dict(d) == [t |-> "dict", v |-> d]
Arr(a) == [t |-> "array", v |-> a]

\* CFNumberGetValue(num_ref, kCFNumberSInt64Type, &out)
CFNumberGetValue(num_ref) ==
    IF "long" \in DOMAIN num_ref THEN num_ref.long ELSE Long(num_ref.v)

\* CFDictionaryGetValue
CFDictionaryGetValue(dict, key) ==
    IF key \in DOMAIN dict.v THEN dict.v[key] ELSE Null

\* the helper reading the 65535 of "no estimate" as -1
get_long_propSentinel(dict, key) ==
    LET num_ref == CFDictionaryGetValue(dict, key)
        value   == IF num_ref.t # "null" /\ num_ref.t = "num" THEN num_ref.v ELSE 0
    IN  IF value = 65535 THEN -1 ELSE value

get_long_prop(dict, key) ==
    LET num_ref == CFDictionaryGetValue(dict, key)
    IN  IF num_ref.t # "null" /\ num_ref.t = "num" THEN num_ref.v ELSE 0

\* the helper taking any value that is not a boolean for true
get_bool_propAnyValue(dict, key) ==
    LET bool_ref == CFDictionaryGetValue(dict, key)
    IN  IF bool_ref.t # "null" /\ bool_ref.t = "bool"
        THEN (IF bool_ref.v THEN 1 ELSE 0)
        ELSE IF bool_ref.t # "null" THEN 1 ELSE 0

get_bool_prop(dict, key) ==
    LET bool_ref == CFDictionaryGetValue(dict, key)
    IN  IF bool_ref.t # "null" /\ bool_ref.t = "bool"
        THEN (IF bool_ref.v THEN 1 ELSE 0) ELSE 0

\* CFStringGetCString copies the string and its terminator when both fit
\* in buffer_size bytes and leaves the buffer as it is otherwise; a string
\* is a sequence of one-byte characters.
get_string_prop(dict, key, buffer, buffer_size) ==
    LET str_ref == CFDictionaryGetValue(dict, key)
    IN  IF str_ref.t # "null" /\ str_ref.t = "str"
        THEN (IF Len(str_ref.v) < buffer_size THEN str_ref.v ELSE buffer)
        ELSE ""

get_dict_prop(dict, key) ==
    LET value == CFDictionaryGetValue(dict, key)
    IN  IF value.t # "null" /\ value.t = "dict" THEN value ELSE Null

MaxCells == 16

RECURSIVE CopyLongs(_, _, _, _)
CopyLongs(array_ref, out_array, i, count) ==
    IF i >= count THEN out_array
    ELSE LET num_ref == array_ref.v[i + 1]
             value   == IF num_ref.t # "null" /\ num_ref.t = "num"
                        THEN CFNumberGetValue(num_ref) ELSE Long(0)
         IN  CopyLongs(array_ref, [out_array EXCEPT ![i + 1] = value],
                       i + 1, count)

\* the helper cutting an array of max_count entries or more one entry short
get_long_array_propCutShort(dict, key, out_array, max_count) ==
    LET value_ref == CFDictionaryGetValue(dict, key)
    IN  IF value_ref.t # "null" /\ value_ref.t = "array"
        THEN LET n     == Len(value_ref.v)
                 count == IF n >= max_count THEN max_count - 1 ELSE n
             IN  [arr   |-> CopyLongs(value_ref, out_array, 0, count),
                  count |-> count]
        ELSE [arr |-> out_array, count |-> 0]

\* The array out_array after the call, and *final_count.
get_long_array_prop(dict, key, out_array, max_count) ==
    LET value_ref == CFDictionaryGetValue(dict, key)
    IN  IF value_ref.t # "null" /\ value_ref.t = "array"
        THEN LET n     == Len(value_ref.v)
                 count == IF n > max_count THEN max_count ELSE n
             IN  [arr   |-> CopyLongs(value_ref, out_array, 0, count),
                  count |-> count]
        ELSE [arr |-> out_array, count |-> 0]

\* var c_info C.c_battery_info: Go zeroes it.
ZeroCInfo ==
    [is_charging |-> 0, is_connected |-> 0, is_fully_charged |-> 0,
     cycle_count |-> 0,
     design_capacity |-> 0, max_capacity |-> 0, nominal_capacity |-> 0,
     current_capacity |-> 0, time_to_empty |-> 0, time_to_full |-> 0,
     temperature |-> 0, voltage |-> 0, amperage |-> 0,
     serial_number |-> "", device_name |-> "",
     adapter_watts |-> 0, adapter_voltage |-> 0, adapter_amperage |-> 0,
     adapter_description |-> "",
     source_voltage |-> 0, source_amperage |-> 0,
     cell_voltages |-> [i \in 1..MaxCells |-> Long(0)], cell_voltage_count |-> 0]

\* The population of the struct, telemetry.go 173-216 (battery.go 273-316).
Populate(info, properties) ==
    LET adapter_details == get_dict_prop(properties, "AdapterDetails")
        power_telemetry == get_dict_prop(properties, "PowerTelemetryData")
        battery_data    == get_dict_prop(properties, "BatteryData")
        cells == get_long_array_prop(battery_data, "CellVoltage",
                                     info.cell_voltages, MaxCells)
        top == [info EXCEPT
                  !.is_charging = get_bool_prop(properties, "IsCharging"),
                  !.is_connected = get_bool_prop(properties, "ExternalConnected"),
                  !.is_fully_charged = get_bool_prop(properties, "FullyCharged"),
                  !.cycle_count = get_long_prop(properties, "CycleCount"),
                  !.design_capacity = get_long_prop(properties, "DesignCapacity"),
                  !.max_capacity = get_long_prop(properties, "AppleRawMaxCapacity"),
                  !.nominal_capacity = get_long_prop(properties, "NominalChargeCapacity"),
                  !.current_capacity = get_long_prop(properties, "AppleRawCurrentCapacity"),
                  !.time_to_empty = get_long_prop(properties, "AvgTimeToEmpty"),
                  !.time_to_full = get_long_prop(properties, "AvgTimeToFull"),
                  !.temperature = get_long_prop(properties, "Temperature"),
                  !.voltage = get_long_prop(properties, "Voltage"),
                  !.amperage = get_long_prop(properties, "Amperage"),
                  !.serial_number = get_string_prop(properties, "Serial", info.serial_number, 256),
                  !.device_name = get_string_prop(properties, "DeviceName", info.device_name, 256)]
        ad  == IF adapter_details.t # "null"
               THEN [top EXCEPT
                  !.adapter_watts = get_long_prop(adapter_details, "Watts"),
                  !.adapter_voltage = get_long_prop(adapter_details, "AdapterVoltage"),
                  !.adapter_amperage = get_long_prop(adapter_details, "Current"),
                  !.adapter_description =
                      get_string_prop(adapter_details, "Description",
                                      top.adapter_description, 256)]
               ELSE top
        pt  == IF power_telemetry.t # "null"
               THEN [ad EXCEPT
                  !.source_voltage = get_long_prop(power_telemetry, "SystemVoltageIn"),
                  !.source_amperage = get_long_prop(power_telemetry, "SystemCurrentIn")]
               ELSE ad
    IN  IF battery_data.t # "null"
        THEN [pt EXCEPT !.cell_voltages = cells.arr,
                        !.cell_voltage_count = cells.count]
        ELSE pt

\* The registry as one query sees it: whether IOServiceMatching returns a
\* dictionary, whether IOServiceGetMatchingServices succeeds, whether the
\* iterator yields a service, whether IORegistryEntryCreateCFProperties
\* succeeds, and the properties dictionary it hands out (or Null).
\* get_all_battery_info returns its code and the struct as it leaves it.
\* the reader reporting every failure with the code 1
get_all_battery_infoOneCode(reg, info) ==
    IF ~reg.matching \/ ~reg.services \/ ~reg.battery
       \/ ~reg.result \/ reg.properties.t = "null"
    THEN [ret |-> 1, info |-> info]
    ELSE [ret |-> 0, info |-> Populate(info, reg.properties)]

get_all_battery_info(reg, info) ==
    IF ~reg.matching THEN [ret |-> 1, info |-> info]
    ELSE IF ~reg.services THEN [ret |-> 2, info |-> info]
    ELSE IF ~reg.battery THEN [ret |-> 3, info |-> info]
    ELSE IF ~reg.result \/ reg.properties.t = "null" THEN [ret |-> 4, info |-> info]
    ELSE [ret |-> 0, info |-> Populate(info, reg.properties)]


\* ------------------------------------------------------------------------
\* Go: the snapshot and the derived metrics.
\* ------------------------------------------------------------------------
F0 == FZero(1)
F100 == FFromInt(100)
\* the divisor of a conversion from binary thousandths
F1024 == FFromInt(1024)

F1000 == FFromInt(1000)

\* for i := 0; i < count; i++ { slice[i] = int(c_voltages_ptr[i]) }
IndividualCellVoltages(c_info) ==
    IF c_info.cell_voltage_count > 0
    THEN [i \in 1..c_info.cell_voltage_count |-> c_info.cell_voltages[i]]
    ELSE <<>>

ZeroCalculations ==
    [HealthByMaxCapacity |-> 0, HealthByNominalCapacity |-> 0,
     ConditionAdjustedHealth |-> 0,
     ACPower |-> F0, BatteryPower |-> F0, SystemPower |-> F0]

\* package power: the BatteryInfo literal of GetBatteryInfo and the copy of
\* the cell voltages
PowerBatteryInfo(c_info) ==
    [State |->
        [IsCharging |-> c_info.is_charging # 0,
         IsConnected |-> c_info.is_connected # 0,
         FullyCharged |-> c_info.is_fully_charged # 0],
     Battery |->
        [SerialNumber |-> c_info.serial_number,
         DeviceName |-> c_info.device_name,
         CycleCount |-> c_info.cycle_count,
         DesignCapacity |-> c_info.design_capacity,
         MaxCapacity |-> c_info.max_capacity,
         NominalCapacity |-> c_info.nominal_capacity,
         CurrentCapacity |-> c_info.current_capacity,
         TimeToEmpty |-> c_info.time_to_empty,
         TimeToFull |-> c_info.time_to_full,
         Temperature |-> FDiv(FFromInt(c_info.temperature), F100),
         Voltage |-> FDiv(FFromInt(c_info.voltage), F1000),
         Amperage |-> FDiv(FFromInt(c_info.amperage), F1000),
         IndividualCellVoltages |-> IndividualCellVoltages(c_info)],
     Adapter |->
        [Description |-> c_info.adapter_description,
         MaxWatts |-> c_info.adapter_watts,
         MaxVoltage |-> FDiv(FFromInt(c_info.adapter_voltage), F1000),
         MaxAmperage |-> FDiv(FFromInt(c_info.adapter_amperage), F1000),
         InputVoltage |-> FDiv(FFromInt(c_info.source_voltage), F1000),
         InputAmperage |-> FDiv(FFromInt(c_info.source_amperage), F1000)],
     Calculations |-> ZeroCalculations]

\* findMinMax of package power
RECURSIVE ScanMinMax(_, _, _, _)
ScanMinMax(a, i, min, max) ==
    IF i > Len(a) THEN [min |-> min, max |-> max]
    ELSE ScanMinMax(a, i + 1,
                    IF LongLess(a[i], min) THEN a[i] ELSE min,
                    IF LongLess(max, a[i]) THEN a[i] ELSE max)

findMinMax(a) ==
    IF Len(a) = 0 THEN [min |-> Long(0), max |-> Long(0)]
    ELSE ScanMinMax(a, 1, a[1], a[1])

\* the switch on drift with exclusive upper bounds
conditionModifierExclusive(drift) ==
    IF LongLess(drift, Long(5)) THEN FHalves(5)
    ELSE IF LongLess(drift, Long(15)) THEN FFromInt(1)
    ELSE IF LongLess(drift, Long(30)) THEN F0
    ELSE IF LongLess(drift, Long(50)) THEN FFromInt(-2)
    ELSE FFromInt(-10)

\* the switch on drift
conditionModifier(drift) ==
    IF LongLe(drift, Long(5)) THEN FHalves(5)
    ELSE IF LongLe(drift, Long(15)) THEN FFromInt(1)
    ELSE IF LongLe(drift, Long(30)) THEN F0
    ELSE IF LongLe(drift, Long(50)) THEN FFromInt(-2)
    ELSE FFromInt(-10)

\* the helper rounding to two decimal places instead of truncating
truncateRounding(f) == FDiv(FRound(FMul(f, F100)), F100)

\* truncate := func(f float64) float64 { return math.Trunc(f*100) / 100 }
truncate(f) == FDiv(FTrunc(FMul(f, F100)), F100)

\* the health block converting with int(x) alone, without math.Round
HealthBlockTruncating(calc, design, max, nominal, cells, mm) ==
    LET designCapF      == FFromInt(design)
        healthByMax     == FMul(FDiv(FFromInt(max), designCapF), F100)
        nominalRatio    == FDiv(FFromInt(nominal), designCapF)
        healthByNominal == FMul(nominalRatio, F100)
        modifier        == IF Len(cells) > 1
                           THEN conditionModifier(LongSub(mm.max, mm.min))
                           ELSE F0
    IN  [calc EXCEPT
           !.HealthByMaxCapacity = FToInt(FTrunc(healthByMax)),
           !.HealthByNominalCapacity = FToInt(FTrunc(healthByNominal)),
           !.ConditionAdjustedHealth =
               FToInt(FTrunc(MultiplyAdd(nominalRatio, F100, modifier)))]

\* the health block adding the modifier to the rounded nominal percentage
HealthBlockDoubleRounding(calc, design, max, nominal, cells, mm) ==
    LET designCapF      == FFromInt(design)
        healthByMax     == FMul(FDiv(FFromInt(max), designCapF), F100)
        nominalRatio    == FDiv(FFromInt(nominal), designCapF)
        healthByNominal == FMul(nominalRatio, F100)
        modifier        == IF Len(cells) > 1
                           THEN conditionModifier(LongSub(mm.max, mm.min))
                           ELSE F0
    IN  [calc EXCEPT
           !.HealthByMaxCapacity = FToInt(FRound(healthByMax)),
           !.HealthByNominalCapacity = FToInt(FRound(healthByNominal)),
           !.ConditionAdjustedHealth =
               FToInt(FRound(FAdd(FRound(healthByNominal), modifier)))]

\* the health block applying the modifier from one cell on
\* if len(info.Battery.IndividualCellVoltages) > 1: findMinMax is called
ScansCells(cells) == Len(cells) > 1

\* the health block adding the modifier to the percentage of the maximum
\* capacity instead of the nominal one
HealthBlockFromMax(calc, design, max, nominal, cells, mm) ==
    LET designCapF      == FFromInt(design)
        maxRatio        == FDiv(FFromInt(max), designCapF)
        healthByMax     == FMul(maxRatio, F100)
        healthByNominal == FMul(FDiv(FFromInt(nominal), designCapF), F100)
        modifier        == IF Len(cells) > 1
                           THEN conditionModifier(LongSub(mm.max, mm.min))
                           ELSE F0
    IN  [calc EXCEPT
           !.HealthByMaxCapacity = FToInt(FRound(healthByMax)),
           !.HealthByNominalCapacity = FToInt(FRound(healthByNominal)),
           !.ConditionAdjustedHealth =
               FToInt(FRound(MultiplyAdd(maxRatio, F100, modifier)))]

HealthBlockOneCell(calc, design, max, nominal, cells, mm) ==
    LET designCapF      == FFromInt(design)
        healthByMax     == FMul(FDiv(FFromInt(max), designCapF), F100)
        nominalRatio    == FDiv(FFromInt(nominal), designCapF)
        healthByNominal == FMul(nominalRatio, F100)
        modifier        == IF Len(cells) > 0
                           THEN conditionModifier(LongSub(mm.max, mm.min))
                           ELSE F0
    IN  [calc EXCEPT
           !.HealthByMaxCapacity = FToInt(FRound(healthByMax)),
           !.HealthByNominalCapacity = FToInt(FRound(healthByNominal)),
           !.ConditionAdjustedHealth =
               FToInt(FRound(MultiplyAdd(nominalRatio, F100, modifier)))]

\* The three health fields of the block guarded by DesignCapacity; mm is
\* the result of findMinMax, which is called only with more than one cell.
\* healthByNominal is the rounded product where it is rounded by itself;
\* in healthByNominal + conditionModifier the build may fuse the product
\* with the sum.
HealthBlock(calc, design, max, nominal, cells, mm) ==
    LET designCapF      == FFromInt(design)
        healthByMax     == FMul(FDiv(FFromInt(max), designCapF), F100)
        nominalRatio    == FDiv(FFromInt(nominal), designCapF)
        healthByNominal == FMul(nominalRatio, F100)
        modifier        == IF ScansCells(cells)
                           THEN conditionModifier(LongSub(mm.max, mm.min))
                           ELSE F0
    IN  [calc EXCEPT
           !.HealthByMaxCapacity = FToInt(FRound(healthByMax)),
           !.HealthByNominalCapacity = FToInt(FRound(healthByNominal)),
           !.ConditionAdjustedHealth =
               FToInt(FRound(MultiplyAdd(nominalRatio, F100, modifier)))]

\* The three power fields.
\* the power flow counting the current out of the battery as positive
PowerBlockDischargePositive(calc, inputVoltage, inputAmperage, voltage, amperage) ==
    LET ACPower      == truncate(FMul(inputVoltage, inputAmperage))
        BatteryPower == truncate(FMul(voltage, FNeg(amperage)))
    IN  [calc EXCEPT
           !.ACPower = ACPower,
           !.BatteryPower = BatteryPower,
           !.SystemPower = truncate(FSub(ACPower, BatteryPower))]

PowerBlock(calc, inputVoltage, inputAmperage, voltage, amperage) ==
    LET ACPower      == truncate(FMul(inputVoltage, inputAmperage))
        BatteryPower == truncate(FMul(voltage, amperage))
    IN  [calc EXCEPT
           !.ACPower = ACPower,
           !.BatteryPower = BatteryPower,
           !.SystemPower = truncate(FSub(ACPower, BatteryPower))]

\* the guard letting a zero design capacity through
HealthGuardNonNegative(designCapacity) == designCapacity >= 0

\* package power: if info.Battery.DesignCapacity > 0 { ... }
PowerHealthGuard(designCapacity) == designCapacity > 0

\* the derivation returning before the power flow when the health is skipped
calculateDerivedMetricsEarlyReturn(info) ==
    LET b == info.Battery
    IN  IF PowerHealthGuard(b.DesignCapacity)
        THEN [info EXCEPT !.Calculations =
                PowerBlock(HealthBlock(info.Calculations, b.DesignCapacity,
                                       b.MaxCapacity, b.NominalCapacity,
                                       b.IndividualCellVoltages,
                                       findMinMax(b.IndividualCellVoltages)),
                           info.Adapter.InputVoltage, info.Adapter.InputAmperage,
                           b.Voltage, b.Amperage)]
        ELSE info

calculateDerivedMetrics(info) ==
    LET b == info.Battery
        h == IF PowerHealthGuard(b.DesignCapacity)
             THEN HealthBlock(info.Calculations, b.DesignCapacity,
                              b.MaxCapacity, b.NominalCapacity,
                              b.IndividualCellVoltages,
                              findMinMax(b.IndividualCellVoltages))
             ELSE info.Calculations
    IN  [info EXCEPT !.Calculations =
            PowerBlock(h, info.Adapter.InputVoltage, info.Adapter.InputAmperage,
                       b.Voltage, b.Amperage)]


\* package iokit: the BatteryInfo literal of GetBatteryInfo
IokitBatteryInfo(c_info) ==
    [IsCharging |-> c_info.is_charging # 0,
     IsConnected |-> c_info.is_connected # 0,
     FullyCharged |-> c_info.is_fully_charged # 0,
     Health |-> [CycleCount |-> c_info.cycle_count],
     Capacity |->
        [DesignCapacity |-> c_info.design_capacity,
         MaxCapacity |-> c_info.max_capacity,
         NominalCapacity |-> c_info.nominal_capacity],
     Charge |->
        [CurrentCapacity |-> c_info.current_capacity,
         TimeToEmpty |-> c_info.time_to_empty,
         TimeToFull |-> c_info.time_to_full],
     Battery |->
        [Temperature |-> FDiv(FFromInt(c_info.temperature), F100),
         IndividualCellVoltages |-> IndividualCellVoltages(c_info)],
     Power |->
        [Voltage |-> FDiv(FFromInt(c_info.voltage), F1000),
         Amperage |-> FDiv(FFromInt(c_info.amperage), F1000)],
     Hardware |->
        [SerialNumber |-> c_info.serial_number,
         DeviceName |-> c_info.device_name],
     Adapter |->
        [Watts |-> c_info.adapter_watts,
         Voltage |-> FDiv(FFromInt(c_info.adapter_voltage), F1000),
         Amperage |-> FDiv(FFromInt(c_info.adapter_amperage), F1000),
         Description |-> c_info.adapter_description],
     PowerSourceInput |->
        [Voltage |-> FDiv(FFromInt(c_info.source_voltage), F1000),
         Amperage |-> FDiv(FFromInt(c_info.source_amperage), F1000)],
     Calculations |->
        [HealthByMaxCapacity |-> 0, HealthByNominalCapacity |-> 0,
         ConditionAdjustedHealth |-> 0]]

\* findMinMax of package iokit: no guard for the empty slice, a[0] panics
IokitFindMinMax(a) == ScanMinMax(a, 1, a[1], a[1])

\* package iokit: if info.Capacity.DesignCapacity == 0 { return }
IokitHealthGuard(designCapacity) == designCapacity # 0

calculateHealthMetrics(info) ==
    IF IokitHealthGuard(info.Capacity.DesignCapacity)
    THEN [info EXCEPT !.Calculations =
            HealthBlock(info.Calculations, info.Capacity.DesignCapacity,
                        info.Capacity.MaxCapacity, info.Capacity.NominalCapacity,
                        info.Battery.IndividualCellVoltages,
                        IokitFindMinMax(info.Battery.IndividualCellVoltages))]
    ELSE info


\* ------------------------------------------------------------------------
\* The platform objects of one query: the events <<"acquire", object>> and
\* <<"release", object>> of get_all_battery_info, in program order.
\* ------------------------------------------------------------------------
\* a helper creates its key string and releases it before it returns
KeyEvents(keys) ==
    [i \in 1..(2 * Len(keys)) |->
        IF i % 2 = 1 THEN <<"acquire", keys[(i + 1) \div 2]>>
        ELSE <<"release", keys[i \div 2]>>]

TopLevelKeys ==
    <<"IsCharging", "ExternalConnected", "FullyCharged", "CycleCount",
      "DesignCapacity", "AppleRawMaxCapacity", "NominalChargeCapacity",
      "AppleRawCurrentCapacity", "AvgTimeToEmpty", "AvgTimeToFull",
      "Temperature", "Voltage", "Amperage", "Serial", "DeviceName">>

\* the key strings of the population of the struct, nested keys only where
\* the nested dictionary is found
PopulateKeys(properties) ==
    TopLevelKeys
    \o <<"AdapterDetails">>
    \o (IF get_dict_prop(properties, "AdapterDetails").t # "null"
        THEN <<"Watts", "AdapterVoltage", "Current", "Description">> ELSE <<>>)
    \o <<"PowerTelemetryData">>
    \o (IF get_dict_prop(properties, "PowerTelemetryData").t # "null"
        THEN <<"SystemVoltageIn", "SystemCurrentIn">> ELSE <<>>)
    \o <<"BatteryData">>
    \o (IF get_dict_prop(properties, "BatteryData").t # "null"
        THEN <<"CellVoltage">> ELSE <<>>)

\* The events of get_all_battery_info; IOServiceGetMatchingServices consumes
\* one reference of the matching dictionary whether it succeeds or not, and
\* onLookupFailure is what the code does besides before it returns 2.
ReaderEvents(reg, onLookupFailure) ==
    IF ~reg.matching THEN <<>>
    ELSE LET lookup == <<<<"acquire", "matching">>, <<"release", "matching">>>>
         IN  IF ~reg.services THEN lookup \o onLookupFailure
             ELSE LET next == lookup \o <<<<"acquire", "iterator">>>>
                              \o (IF reg.battery
                                  THEN <<<<"acquire", "battery">>>> ELSE <<>>)
                              \o <<<<"release", "iterator">>>>
                  IN  IF ~reg.battery THEN next
                      ELSE LET fetch == next
                                   \o (IF reg.properties.t # "null"
                                       THEN <<<<"acquire", "properties">>>>
                                       ELSE <<>>)
                                   \o <<<<"release", "battery">>>>
                           IN  IF ~reg.result \/ reg.properties.t = "null"
                               THEN fetch
                               ELSE fetch \o KeyEvents(PopulateKeys(reg.properties))
                                          \o <<<<"release", "properties">>>>

\* package power: return 2 and nothing else
PowerReaderEvents(reg) == ReaderEvents(reg, <<>>)

\* package iokit: CFRelease(matching); return 2
IokitReaderEvents(reg) == ReaderEvents(reg, <<<<"release", "matching">>>>)

\* ------------------------------------------------------------------------
\* GetBatteryInfo: what one invocation returns, the struct it filled and
\* the steps it took.
\* ------------------------------------------------------------------------
Nil == [nil |-> TRUE]

\* fmt.Errorf("IOKit query failed with C error code: %d", ret)
Errorf(ret) == [format |-> "IOKit query failed with C error code: %d", arg |-> ret]

\* GetBatteryInfo asking the reader a second time after a failure
GetBatteryInfoRetrying(reg) ==
    LET r == get_all_battery_info(reg, ZeroCInfo)
        again == get_all_battery_info(reg, r.info)
    IN  IF r.ret # 0
        THEN [events |-> PowerReaderEvents(reg) \o PowerReaderEvents(reg), info |-> Nil, err |-> Errorf(again.ret), c_info |-> again.info,
              steps |-> <<"get_all_battery_info", "get_all_battery_info">>,
              aborts |-> FALSE]
        ELSE LET info == PowerBatteryInfo(r.info)
             IN  [events |-> PowerReaderEvents(reg),
                  info |-> calculateDerivedMetrics(info), err |-> Nil,
                  c_info |-> r.info,
                  steps |-> <<"get_all_battery_info", "map", "derive">>
                            \o (IF PowerHealthGuard(info.Battery.DesignCapacity)
                                THEN <<"divide">>
                                     \o (IF ScansCells(info.Battery.IndividualCellVoltages)
                                         THEN <<"findMinMax">> ELSE <<>>)
                                ELSE <<>>),
                  aborts |-> FALSE]

\* GetBatteryInfo refusing a record that has no design capacity
GetBatteryInfoRejecting(reg) ==
    LET r == get_all_battery_info(reg, ZeroCInfo)
    IN  IF r.ret # 0 \/ r.info.design_capacity = 0
        THEN [events |-> PowerReaderEvents(reg), info |-> Nil, err |-> Errorf(r.ret), c_info |-> r.info,
              steps |-> <<"get_all_battery_info">>, aborts |-> FALSE]
        ELSE LET info == PowerBatteryInfo(r.info)
             IN  [events |-> PowerReaderEvents(reg),
                  info |-> calculateDerivedMetrics(info), err |-> Nil,
                  c_info |-> r.info,
                  steps |-> <<"get_all_battery_info", "map", "derive">>
                            \o (IF PowerHealthGuard(info.Battery.DesignCapacity)
                                THEN <<"divide">>
                                     \o (IF ScansCells(info.Battery.IndividualCellVoltages)
                                         THEN <<"findMinMax">> ELSE <<>>)
                                ELSE <<>>),
                  aborts |-> FALSE]

PowerGetBatteryInfo(reg) ==
    LET r == get_all_battery_info(reg, ZeroCInfo)
    IN  IF r.ret # 0
        THEN [events |-> PowerReaderEvents(reg), info |-> Nil, err |-> Errorf(r.ret), c_info |-> r.info,
              steps |-> <<"get_all_battery_info">>, aborts |-> FALSE]
        ELSE LET info == PowerBatteryInfo(r.info)
             IN  [events |-> PowerReaderEvents(reg),
                  info |-> calculateDerivedMetrics(info), err |-> Nil,
                  c_info |-> r.info,
                  steps |-> <<"get_all_battery_info", "map", "derive">>
                            \o (IF PowerHealthGuard(info.Battery.DesignCapacity)
                                THEN <<"divide">>
                                     \o (IF ScansCells(info.Battery.IndividualCellVoltages)
                                         THEN <<"findMinMax">> ELSE <<>>)
                                ELSE <<>>),
                  aborts |-> FALSE]

\* package iokit: on a failed lookup the reader releases the matching
\* dictionary that IOServiceGetMatchingServices has consumed already.  What
\* the release of a freed object does is not defined: it goes unnoticed and
\* the reader returns 2, or the allocator ends the process inside the call
\* and GetBatteryInfo returns nothing.
IokitReleasesFreed(reg) == reg.matching /\ ~reg.services

ReleaseOutcomes == {"unnoticed", "abort"}

IokitGetBatteryInfo(reg, release) ==
    LET r == get_all_battery_info(reg, ZeroCInfo)
    IN  IF IokitReleasesFreed(reg) /\ release = "abort"
        THEN [events |-> IokitReaderEvents(reg), info |-> Nil, err |-> Nil,
              c_info |-> r.info, steps |-> <<"get_all_battery_info">>,
              aborts |-> TRUE]
        ELSE IF r.ret # 0
        THEN [events |-> IokitReaderEvents(reg), info |-> Nil, err |-> Errorf(r.ret), c_info |-> r.info,
              steps |-> <<"get_all_battery_info">>, aborts |-> FALSE]
        ELSE LET info == IokitBatteryInfo(r.info)
             IN  [events |-> IokitReaderEvents(reg),
                  info |-> calculateHealthMetrics(info), err |-> Nil,
                  c_info |-> r.info,
                  steps |-> <<"get_all_battery_info", "map", "derive">>
                            \o (IF IokitHealthGuard(info.Capacity.DesignCapacity)
                                THEN <<"divide">>
                                     \o (IF ScansCells(info.Battery.IndividualCellVoltages)
                                         THEN <<"findMinMax">> ELSE <<>>)
                                ELSE <<>>),
                  aborts |-> FALSE]

\* ------------------------------------------------------------------------
\* The registries a query can meet.
\* ------------------------------------------------------------------------
Nums(a) == Arr([i \in 1..Len(a) |-> Num(a[i])])

\* capacities <<design, max, nominal>>
DesignValues == {-100, 0, 8, 200, 8579}
MaxValues == {-1, 29, 7701}
NominalValues == {1, 29, 7945}
CapCases == DesignValues \X MaxValues \X NominalValues
\* the capacities of the example output of the README
ReadmeCap == <<8579, 7697, 7941>>
\* the capacities of the example output of the earlier documentation
ExampleCap == <<8579, 7701, 7945>>

\* capacities whose percentage 51 / 40 * 100.0 is the float64 just below
\* 127.5
HalfwayCap == <<40, 51, 51>>

\* capacities whose nominal ratio times 100.0 rounds to a half (17.5, 8.5)
\* that the exact product lies just beside
FusedCaps == {<<200, 35, 35>>, <<40, 7, 7>>, <<200, 21, 17>>}

\* values of the CellVoltage key
ReadmeCells == Nums(<<3979, 3977, 3976>>)
ExampleCells == Nums(<<3783, 3785, 3784>>)
CellCases ==
    {ReadmeCells, ExampleCells, Nums(<<>>), Nums(<<3783>>), Num(3783),
     Nums(<<3700, 3705>>), Nums(<<3706, 3700>>),
     Nums(<<3700, 3715, 3710>>), Nums(<<3716, 3710, 3700>>),
     Nums(<<3730, 3700>>), Nums(<<3700, 3731>>),
     Nums(<<3700, 3725, 3750>>), Nums(<<3751, 3700>>),
     Arr(<<Num(3700), Str("x"), Num(3702)>>),
     Nums([i \in 1..20 |-> IF i <= 16 THEN 3700 + i ELSE 4000]),
     Nums([i \in 1..16 |-> 3700 + i]), Nums([i \in 1..17 |-> 3717 - i])}

\* <<Voltage, Amperage>> of the battery, in mV and mA
BatteryVA == {0, 10, 1000, 11353, 11932, 26473} \X {-2000, -920, 0, 290, 1000, 4437}
\* <<SystemVoltageIn, SystemCurrentIn>>
SourceVA == {<<0, 0>>, <<19517, 3213>>, <<20188, 5>>, <<1000, 570>>, <<300, 1000>>}
ReadmeBattery == <<11932, 4437>>
ReadmeSource == <<19517, 3213>>

Props(cap, cells, bat, src, connected) ==
    [IsCharging |-> Bool(bat[2] > 0),
     ExternalConnected |-> Bool(connected),
     FullyCharged |-> Bool(FALSE),
     CycleCount |-> Num(180),
     DesignCapacity |-> Num(cap[1]),
     AppleRawMaxCapacity |-> Num(cap[2]),
     NominalChargeCapacity |-> Num(cap[3]),
     AppleRawCurrentCapacity |-> Num(3790),
     AvgTimeToEmpty |-> Num(65535),
     AvgTimeToFull |-> Num(124),
     Temperature |-> Num(3041),
     Voltage |-> Num(bat[1]),
     Amperage |-> Num(bat[2]),
     Serial |-> Str("F8YH5900JDP00000E7"),
     DeviceName |-> Str("bq40z651"),
     AdapterDetails |-> Dict([Watts |-> Num(65), AdapterVoltage |-> Num(20000),
                              Current |-> Num(3250),
                              Description |-> Str("pd charger")]),
     PowerTelemetryData |-> Dict([SystemVoltageIn |-> Num(src[1]),
                                  SystemCurrentIn |-> Num(src[2])]),
     BatteryData |-> Dict([CellVoltage |-> cells])]

\* the record behind the example output of the README
ReadmeProps == Props(ReadmeCap, ReadmeCells, ReadmeBattery, ReadmeSource, TRUE)

\* the record behind the example output of the earlier documentation: on
\* battery, the adapter not connected
ExampleProps ==
    [Props(ExampleCap, ExampleCells, <<11353, -920>>, <<20188, 5>>, FALSE)
        EXCEPT !.AppleRawCurrentCapacity = Num(2745),
               !.AvgTimeToEmpty = Num(178),
               !.AvgTimeToFull = Num(65535),
               !.Temperature = Num(3060),
               !.Serial = Str("xxxxxxxxxxxxxxxxxx"),
               !.DeviceName = Str("xxxxxxxx")]

\* a value of another type than the one the reader expects under the key
Mistyped(value) == IF value.t = "num" THEN Str("7") ELSE Num(7)

Without(d, key) == [k \in DOMAIN d \ {key} |-> d[k]]

NestedKeys == {"AdapterDetails", "PowerTelemetryData", "BatteryData"}

NestedShapes(n) ==
    UNION {{[ReadmeProps EXCEPT ![n] = Dict(Without(@.v, k))],
            [ReadmeProps EXCEPT ![n] = Dict([@.v EXCEPT ![k] = Mistyped(@)])]}
           : k \in DOMAIN ReadmeProps[n].v}

\* the README record with one key missing or mistyped, at the top level or
\* inside a nested dictionary, and the empty record
ShapeCases ==
    {Without(ReadmeProps, k) : k \in DOMAIN ReadmeProps}
    \cup {[ReadmeProps EXCEPT ![k] = Mistyped(@)] : k \in DOMAIN ReadmeProps}
    \cup UNION {NestedShapes(n) : n \in NestedKeys}
    \cup {[k \in {} |-> Null]}

\* a string of n copies of c
RECURSIVE Rep(_, _)
Rep(c, n) ==
    IF n = 0 THEN ""
    ELSE IF n % 2 = 1 THEN c \o Rep(c, n - 1)
    ELSE LET half == Rep(c, n \div 2) IN half \o half

\* strings that fill the 256 bytes of their buffer but for the terminator,
\* and strings that do not fit
LongSerial == Str(Rep("S", 256))
LongStringCases ==
    {[ReadmeProps EXCEPT !.Serial = Str(Rep("S", 255))],
     [ReadmeProps EXCEPT !.Serial = LongSerial],
     [ReadmeProps EXCEPT !.DeviceName = Str(Rep("n", 255))],
     [ReadmeProps EXCEPT !.DeviceName = Str(Rep("n", 257))],
     [ReadmeProps EXCEPT !.AdapterDetails =
         Dict([@.v EXCEPT !.Description = Str(Rep("d", 255))])],
     [ReadmeProps EXCEPT !.AdapterDetails =
         Dict([@.v EXCEPT !.Description = Str(Rep("d", 300))])]}

\* AvgTimeToEmpty and AvgTimeToFull in minutes, 65535 for no estimate
TimeValues == {0, 124, 65535, 65536}

\* raw values at the ends of the 32 bits: the temperature in hundredths of
\* a degree, the adapter's millivolts and milliamperes
WidestValues == {-2147483647, 2147483647}
WidestCases ==
    {[ReadmeProps EXCEPT !.Temperature = Num(t), !.Voltage = Num(11353),
                         !.Amperage = Num(-1001),
                         !.AdapterDetails =
                             Dict([@.v EXCEPT !.AdapterVoltage = Num(-a),
                                              !.Current = Num(a)])] :
        t \in {2001} \cup WidestValues, a \in WidestValues}

\* capacities of a million mAh: the percentage 100000000, 0.0001 and -100,
\* and 499999.5, halfway between two integers
LargeCaps ==
    {<<1, 29, 1000000>>, <<1000000, 29, 1>>, <<1000000, 29, -1000000>>,
     <<200, 29, 999999>>}

PropsCases ==
    {Props(cap, cells, ReadmeBattery, ReadmeSource, TRUE) :
        cap \in CapCases, cells \in CellCases}
    \cup {Props(cap, ExampleCells, bat, src, src[2] # 0) :
            cap \in {ExampleCap, <<0, 7701, 7945>>}, bat \in BatteryVA,
            src \in SourceVA}
    \cup {ReadmeProps, ExampleProps}
    \cup {Props(ExampleCap, ExampleCells, <<11353, -920>>, <<20188, 5>>, FALSE)}
    \cup {Props(cap, cells, ReadmeBattery, ReadmeSource, TRUE) :
            cap \in {HalfwayCap} \cup FusedCaps, cells \in CellCases}
    \cup ShapeCases
    \cup LongStringCases
    \cup {[ReadmeProps EXCEPT !.AvgTimeToEmpty = Num(e), !.AvgTimeToFull = Num(f)] :
            e \in TimeValues, f \in TimeValues}
    \cup {[ReadmeProps EXCEPT !.Temperature = Num(t), !.Voltage = Num(v),
                              !.Amperage = Num(a)] :
            t \in {-550, 2001}, v \in {4001, 11353}, a \in {-1001, 4437}}
    \cup WidestCases
    \cup {Props(cap, cells, ReadmeBattery, ReadmeSource, TRUE) :
            cap \in LargeCaps, cells \in CellCases}

Found(properties) ==
    [matching |-> TRUE, services |-> TRUE, battery |-> TRUE, result |-> TRUE,
     properties |-> properties]

\* the failures: no matching dictionary, the lookup fails, no device, the
\* property fetch fails or hands out no dictionary
FailingRegistries ==
    {[Found(Null) EXCEPT !.matching = FALSE],
     [Found(Null) EXCEPT !.services = FALSE],
     [Found(Null) EXCEPT !.battery = FALSE],
     [Found(Null) EXCEPT !.result = FALSE],
     Found(Null)}

Registries == FailingRegistries \cup {Found(Dict(p)) : p \in PropsCases}

\* what a later query of the same process meets
LaterRegistries ==
    {[Found(Null) EXCEPT !.battery = FALSE],
     Found(Dict(ReadmeProps)), Found(Dict([k \in {} |-> Null])),
     Found(Dict([ReadmeProps EXCEPT !.Serial = LongSerial])),
          Found(Dict(Props(<<0, 29, 1>>, Nums(<<3751, 3700>>), <<1000, 290>>,
                           <<0, 0>>, FALSE)))}

\* the first queries a later query of the same process is run after: the
\* failures, the two documented records, the records with a key missing or
\* mistyped or a long string, and the later queries themselves
FollowedRegistries ==
    FailingRegistries \cup LaterRegistries
    \cup {Found(Dict(p)) :
             p \in {ReadmeProps, ExampleProps} \cup ShapeCases \cup LongStringCases}

MaxCalls == 2

\* ------------------------------------------------------------------------
\* The rest of the state: the package whose GetBatteryInfo ran last, the
\* registry it met, the C struct it filled, what it returned, the steps it
\* took, the events on the platform objects of its query, the number of
\* invocations so far, and whether the process was aborted.
\* ------------------------------------------------------------------------
VARIABLES pkg, registry, c_info, info, err, steps, events, calls, aborted

vars == <<build, pkg, registry, c_info, info, err, steps, events, calls, aborted>>

Init ==
    /\ build \in Builds
    /\ pkg = "none"
    /\ registry = Found(Null)
    /\ c_info = ZeroCInfo
    /\ info = Nil
    /\ err = Nil
    /\ steps = <<>>
    /\ events = <<>>
    /\ calls = 0
    /\ aborted = FALSE

\* a call filling the struct the previous call left instead of a zeroed one
ReturnsOverPrevious(p, reg, out) ==
    LET r == get_all_battery_info(reg, c_info)
    IN  /\ pkg' = p
        /\ registry' = reg
        /\ c_info' = r.info
        /\ info' = IF r.ret # 0 THEN Nil
                   ELSE IF p = "power"
                   THEN calculateDerivedMetrics(PowerBatteryInfo(r.info))
                   ELSE calculateHealthMetrics(IokitBatteryInfo(r.info))
        /\ err' = out.err
        /\ steps' = out.steps
        /\ events' = out.events
        /\ calls' = calls + 1
        /\ aborted' = out.aborts
        /\ UNCHANGED build

\* the state after an invocation: what it returned, or that it ended the
\* process
Returns(p, reg, out) ==
    /\ pkg' = p
    /\ registry' = reg
    /\ c_info' = out.c_info
    /\ info' = out.info
    /\ err' = out.err
    /\ steps' = out.steps
    /\ events' = out.events
    /\ calls' = calls + 1
    /\ aborted' = out.aborts
    /\ UNCHANGED build

CallPower ==
    /\ ~aborted
    /\ calls < MaxCalls
    /\ calls = 0 \/ registry \in FollowedRegistries
    /\ \E reg \in (IF calls = 0 THEN Registries ELSE LaterRegistries) :
          Returns("power", reg, PowerGetBatteryInfo(reg))

CallIokit ==
    /\ ~aborted
    /\ calls < MaxCalls
    /\ calls = 0 \/ registry \in FollowedRegistries
    /\ \E reg \in (IF calls = 0 THEN Registries ELSE LaterRegistries) :
          \E release \in (IF IokitReleasesFreed(reg)
                          THEN ReleaseOutcomes ELSE {"unnoticed"}) :
             Returns("iokit", reg, IokitGetBatteryInfo(reg, release))

Next == CallPower \/ CallIokit

Spec == Init /\ [][Next]_vars


\* ------------------------------------------------------------------------
\* Reading the state.
\* ------------------------------------------------------------------------
Range(f) == {f[i] : i \in DOMAIN f}

\* the code the reader gave the last invocation
ReaderCode == get_all_battery_info(registry, ZeroCInfo).ret

Succeeded == pkg # "none" /\ info # Nil

RawProperties == registry.properties.v

DesignCapacity ==
    IF pkg = "power" THEN info.Battery.DesignCapacity
    ELSE info.Capacity.DesignCapacity

MaxCapacity ==
    IF pkg = "power" THEN info.Battery.MaxCapacity
    ELSE info.Capacity.MaxCapacity

NominalCapacity ==
    IF pkg = "power" THEN info.Battery.NominalCapacity
    ELSE info.Capacity.NominalCapacity

CellVoltages == info.Battery.IndividualCellVoltages

\* the 64-bit values of a sequence of integers
Longs(a) == [i \in 1..Len(a) |-> Long(a[i])]

Calculations == info.Calculations

HealthAllZero ==
    /\ Calculations.HealthByMaxCapacity = 0
    /\ Calculations.HealthByNominalCapacity = 0
    /\ Calculations.ConditionAdjustedHealth = 0

\* -1, 0, 1 as the finite a is <, =, > the fraction n / d, 0 < d < 2^19
FCmpRat(a, n, d) ==
    LET sa == IF a.m = <<>> THEN 0 ELSE a.s
        sn == IF n = 0 THEN 0 ELSE IF n < 0 THEN -1 ELSE 1
        x  == BMulSmall(a.m, d)
        y  == BFromNat(Abs(n))
    IN  IF sa # sn THEN (IF sa < sn THEN -1 ELSE 1)
        ELSE IF sa = 0 THEN 0
        ELSE IF a.e >= 0 THEN sa * BCmp(BShl(x, a.e), y)
        ELSE sa * BCmp(x, BShl(y, -a.e))

\* the integer h is the value x rounded to the nearest integer, a value
\* halfway between two integers going to the one farther from zero
RoundsHalfAway(h, x) ==
    /\ x.k = "fin"
    /\ IF x.m = <<>> \/ x.s = 1
       THEN FCmpRat(x, 2 * h - 1, 2) >= 0 /\ FCmpRat(x, 2 * h + 1, 2) < 0
       ELSE FCmpRat(x, 2 * h - 1, 2) > 0 /\ FCmpRat(x, 2 * h + 1, 2) <= 0

\* the fraction n / d (d > 0) rounded the same way, in exact arithmetic
RoundHalfAwayInt(n, d) ==
    (IF n < 0 THEN -1 ELSE 1) * ((2 * Abs(n) + d) \div (2 * d))

\* n / d lies exactly halfway between two integers
IsTie(n, d) == (2 * Abs(n)) % d = 0 /\ ((2 * Abs(n)) \div d) % 2 = 1

\* capacity / designCapacity * 100 in float64
Percentage(capacity, designCapacity) ==
    FMul(FDiv(FFromInt(capacity), FFromInt(designCapacity)), F100)

\* nominalCapacity / designCapacity * 100 plus the modifier m2 / 2 of the
\* snapshot in float64, the sum as the build computes it
AdjustedPercentage(m2) ==
    MultiplyAdd(FDiv(FFromInt(NominalCapacity), FFromInt(DesignCapacity)),
                F100, FHalves(m2))

SetMax(S) == CHOOSE x \in S : \A y \in S : y <= x
SetMin(S) == CHOOSE x \in S : \A y \in S : x <= y

LongMax(S) == CHOOSE x \in S : \A y \in S : LongLe(y, x)
LongMin(S) == CHOOSE x \in S : \A y \in S : LongLe(x, y)

\* max - min of the cell voltages (at least one of them): the integer
\* itself, not cut to 64 bits
Spread(cells) == LongSum(LongMax(Range(cells)), LongNeg(LongMin(Range(cells))))

\* max - min of the snapshot's cell voltages (at least one of them)
Drift == Spread(CellVoltages)

\* twice the modifier of the table of thresholds
TableModifier2(drift) ==
    IF LongLe(drift, Long(5)) THEN 5
    ELSE IF LongLe(drift, Long(15)) THEN 2
    ELSE IF LongLe(drift, Long(30)) THEN 0
    ELSE IF LongLe(drift, Long(50)) THEN -4
    ELSE -20

AllModifiers2 == {5, 2, 0, -4, -20}

\* what the package's findMinMax returns on the snapshot's cell voltages
MinMax == IF pkg = "power" THEN findMinMax(CellVoltages) ELSE IokitFindMinMax(CellVoltages)

\* twice the modifier the switch gives for the 64-bit drift maxV - minV
AppliedModifier2 ==
    IF Len(CellVoltages) < 2 THEN 0
    ELSE TableModifier2(LongSub(MinMax.max, MinMax.min))

\* the float64 nearest to n / scale (n hundredths is Dec(n, 100))
Dec(n, scale) == FDiv(FFromInt(n), FFromInt(scale))

\* the raw millivolts and milliamperes of the adapter input and the battery
SourceVoltage == c_info.source_voltage
SourceAmperage == c_info.source_amperage
BatteryVoltage == c_info.voltage
BatteryAmperage == c_info.amperage

\* the largest k >= 0 near k0 with k hundredths not above |p|
HundredthsBelow(p, k0) ==
    SetMax({k \in {0} \cup (Max2(k0 - 2, 0) .. (k0 + 2)) :
               FCmpAbs(Dec(k, 100), p) <= 0})

\* r is the product p cut toward zero at the hundredths place; microwatts
\* is the exact product of the raw millivolts and milliamperes
IsTruncation(r, p, microwatts) ==
    LET k == HundredthsBelow(p, Abs(microwatts) \div 10000)
    IN  FEq(r, Dec((IF p.s < 0 THEN -1 ELSE 1) * k, 100))

\* ------------------------------------------------------------------------
\* Claims
\* ------------------------------------------------------------------------

\* C1: when the reader reports a failure (it returns a code that is not
\* 0), GetBatteryInfo returns a nil snapshot and an error carrying the
\* reader's code, maps and derives nothing, and has called the reader
\* exactly once.
C1_FetchFailurePropagates ==
    (pkg # "none" /\ ~aborted /\ ReaderCode # 0) =>
        /\ info = Nil
        /\ err # Nil
        /\ err.arg = ReaderCode
        /\ steps = <<"get_all_battery_info">>

C1_Witness ==
    /\ pkg = "power"
    /\ ~registry.battery
    /\ info = Nil
    /\ err = Errorf(3)

\* C2: whenever the reader succeeds, GetBatteryInfo returns a snapshot and
\* a nil error, whatever the record holds.
C2_SuccessNeverFails ==
    (pkg # "none" /\ ReaderCode = 0) => (info # Nil /\ err = Nil)

C2_Witness ==
    /\ pkg = "power"
    /\ ReaderCode = 0
    /\ DOMAIN RawProperties = {}
    /\ info # Nil
    /\ err = Nil

\* C3: a record whose DesignCapacity is 0, or absent and so read as 0, has
\* its three health fields 0 in the snapshot, and no division by the design
\* capacity has been performed.
C3_ZeroDesignSkipsHealth ==
    (Succeeded /\ (\/ "DesignCapacity" \notin DOMAIN RawProperties
                   \/ RawProperties["DesignCapacity"].t # "num"
                   \/ RawProperties["DesignCapacity"].v = 0)) =>
        /\ DesignCapacity = 0
        /\ "divide" \notin Range(steps)
        /\ HealthAllZero

C3_Witness ==
    /\ Succeeded
    /\ pkg = "power"
    /\ "DesignCapacity" \in DOMAIN RawProperties
    /\ RawProperties["DesignCapacity"] = Num(0)
    /\ MaxCapacity = 7701
    /\ HealthAllZero

\* C4: a record whose DesignCapacity is negative has its health derivation
\* skipped: the three health fields stay 0 whatever the other capacities and
\* the cell voltages are.
C4_NegativeDesignSkipsHealth ==
    (Succeeded /\ DesignCapacity < 0) => HealthAllZero

\* what package power does with a negative design capacity
C4_PowerSkipsNegativeDesign ==
    (Succeeded /\ pkg = "power" /\ DesignCapacity < 0) =>
        (HealthAllZero /\ "divide" \notin Range(steps))


\* C5: for every designCapacity > 0, healthByMaxCapacity is
\* maxCapacity / designCapacity * 100 rounded to the nearest integer, halves
\* away from zero, and healthByNominalCapacity is the same of
\* nominalCapacity; the float64 percentage rounds as the exact fraction does
\* wherever the fraction is not exactly halfway between two integers; 7701
\* of 8579 gives 90 and 7945 of 8579 gives 93, as do the 7697 and 7941 of
\* the README's example.
C5_HealthRoundsHalfAway ==
    (Succeeded /\ DesignCapacity > 0) =>
        /\ RoundsHalfAway(Calculations.HealthByMaxCapacity,
                          Percentage(MaxCapacity, DesignCapacity))
        /\ RoundsHalfAway(Calculations.HealthByNominalCapacity,
                          Percentage(NominalCapacity, DesignCapacity))
        /\ ~IsTie(100 * MaxCapacity, DesignCapacity) =>
              Calculations.HealthByMaxCapacity =
                  RoundHalfAwayInt(100 * MaxCapacity, DesignCapacity)
        /\ ~IsTie(100 * NominalCapacity, DesignCapacity) =>
              Calculations.HealthByNominalCapacity =
                  RoundHalfAwayInt(100 * NominalCapacity, DesignCapacity)
        /\ (DesignCapacity = 8579 /\ MaxCapacity = 7701) =>
              Calculations.HealthByMaxCapacity = 90
        /\ (DesignCapacity = 8579 /\ NominalCapacity = 7945) =>
              Calculations.HealthByNominalCapacity = 93
        /\ (DesignCapacity = 8579 /\ MaxCapacity = 7697) =>
              Calculations.HealthByMaxCapacity = 90
        /\ (DesignCapacity = 8579 /\ NominalCapacity = 7941) =>
              Calculations.HealthByNominalCapacity = 93

C5_Witness ==
    /\ Succeeded
    /\ pkg = "power"
    /\ DesignCapacity = 8579
    /\ MaxCapacity = 7701
    /\ NominalCapacity = 7945
    /\ Calculations.HealthByMaxCapacity = 90
    /\ Calculations.HealthByNominalCapacity = 93

\* C6: for every designCapacity > 0, conditionAdjustedHealth is the
\* unrounded nominal percentage plus the modifier, rounded once (halves away
\* from zero), not the rounded healthByNominalCapacity plus the modifier;
\* 7945 of 8579 with cell voltages 3783, 3785, 3784 gives 95, not 96.  The
\* sum is the float64 the build computes: 35 of 200 with the modifier -2.0
\* gives 16 where the product is rounded before the sum and 15 where the
\* two are fused.
C6_SingleFinalRounding ==
    (Succeeded /\ DesignCapacity > 0) =>
        /\ RoundsHalfAway(Calculations.ConditionAdjustedHealth,
                          AdjustedPercentage(AppliedModifier2))
        /\ ~IsTie(200 * NominalCapacity + AppliedModifier2 * DesignCapacity,
                  2 * DesignCapacity) =>
              Calculations.ConditionAdjustedHealth =
                  RoundHalfAwayInt(200 * NominalCapacity + AppliedModifier2 * DesignCapacity,
                                   2 * DesignCapacity)
        /\ (/\ DesignCapacity = 8579
            /\ NominalCapacity = 7945
            /\ CellVoltages = Longs(<<3783, 3785, 3784>>)) =>
              Calculations.ConditionAdjustedHealth = 95
        /\ (/\ DesignCapacity = 8579
            /\ NominalCapacity = 7941
            /\ CellVoltages = Longs(<<3979, 3977, 3976>>)) =>
              Calculations.ConditionAdjustedHealth = 95
        /\ (/\ DesignCapacity = 200
            /\ NominalCapacity = 35
            /\ CellVoltages = Longs(<<3700, 3731>>)) =>
              Calculations.ConditionAdjustedHealth
                  = (IF FusesMultiplyAdd THEN 15 ELSE 16)

C6_Witness ==
    /\ Succeeded
    /\ pkg = "power"
    /\ DesignCapacity = 8579
    /\ NominalCapacity = 7945
    /\ CellVoltages = Longs(<<3783, 3785, 3784>>)
    /\ Calculations.HealthByNominalCapacity = 93
    /\ Calculations.ConditionAdjustedHealth = 95

\* C7: with at least two cell voltages (and designCapacity > 0), the
\* modifier in conditionAdjustedHealth is the one the table gives for
\* drift = max - min, the upper bounds 5, 15, 30 and 50 inclusive: +2.5,
\* +1.0, 0.0, -2.0, and -10.0 above 50; no other modifier of the table
\* yields the value in the snapshot.
C7_DriftThresholds ==
    (Succeeded /\ DesignCapacity > 0 /\ Len(CellVoltages) >= 2) =>
        \A m2 \in AllModifiers2 :
            RoundsHalfAway(Calculations.ConditionAdjustedHealth,
                           AdjustedPercentage(m2))
            <=> (m2 = TableModifier2(Drift))

C7_Witness ==
    /\ Succeeded
    /\ pkg = "power"
    /\ DesignCapacity = 8579
    /\ NominalCapacity = 7945
    /\ CellVoltages = Longs(<<3700, 3725, 3750>>)
    /\ Drift = Long(50)
    /\ Calculations.ConditionAdjustedHealth = 91

\* C8: with 0 or 1 cell voltages in the snapshot and designCapacity > 0 no
\* modifier is applied: conditionAdjustedHealth = healthByNominalCapacity.
C8_NoModifierBelowTwoCells ==
    (Succeeded /\ DesignCapacity > 0 /\ Len(CellVoltages) <= 1) =>
        Calculations.ConditionAdjustedHealth =
            Calculations.HealthByNominalCapacity

C8_Witness ==
    /\ Succeeded
    /\ pkg = "iokit"
    /\ DesignCapacity = 8579
    /\ NominalCapacity = 7945
    /\ CellVoltages = Longs(<<3783>>)
    /\ Calculations.HealthByNominalCapacity = 93
    /\ Calculations.ConditionAdjustedHealth = 93


\* C9 as stated: for adapter input 19517 mV and 3213 mA the raw product is
\* 62.688321 W and acPower in the snapshot is 62.68, not 62.69.
C9_Original ==
    (Succeeded /\ pkg = "power" /\ SourceVoltage = 19517 /\ SourceAmperage = 3213) =>
        /\ SourceVoltage * SourceAmperage = 62688321
        /\ FEq(Calculations.ACPower, Dec(6268, 100))
        /\ ~FEq(Calculations.ACPower, Dec(6269, 100))

\* C9: for adapter input 19517 mV and 3213 mA the raw product is
\* 62.708121 W and acPower in the snapshot is 62.70, not 62.71, the value
\* rounding would give.
C9_AcPowerExample ==
    (Succeeded /\ pkg = "power" /\ SourceVoltage = 19517 /\ SourceAmperage = 3213) =>
        /\ SourceVoltage * SourceAmperage = 62708121
        /\ FEq(Calculations.ACPower, Dec(6270, 100))
        /\ ~FEq(Calculations.ACPower, Dec(6271, 100))

C9_Witness ==
    /\ Succeeded
    /\ pkg = "power"
    /\ SourceVoltage = 19517
    /\ SourceAmperage = 3213
    /\ FEq(info.Adapter.InputVoltage, Dec(19517, 1000))
    /\ FEq(info.Adapter.InputAmperage, Dec(3213, 1000))
    /\ FEq(Calculations.ACPower, Dec(6270, 100))

\* C10: for all raw inputs acPower is inputVoltage * inputAmperage and
\* batteryPower is voltage * amperage, each cut toward zero at the
\* hundredths place: for a product p >= 0 the largest multiple of 0.01 not
\* above p, for p < 0 the smallest multiple of 0.01 not below p.
C10_PowerTruncatesTowardZero ==
    (Succeeded /\ pkg = "power") =>
        /\ IsTruncation(Calculations.ACPower,
                        FMul(info.Adapter.InputVoltage, info.Adapter.InputAmperage),
                        SourceVoltage * SourceAmperage)
        /\ IsTruncation(Calculations.BatteryPower,
                        FMul(info.Battery.Voltage, info.Battery.Amperage),
                        BatteryVoltage * BatteryAmperage)

\* the input of C10 on which the snapshot is one hundredth short: 1.000 V
\* and 0.290 A give batteryPower 0.28 although the product is 0.29
C10_FailingInput ==
    /\ Succeeded
    /\ pkg = "power"
    /\ BatteryVoltage = 1000
    /\ BatteryAmperage = 290
    /\ FEq(FMul(info.Battery.Voltage, info.Battery.Amperage), Dec(29, 100))
    /\ FEq(Calculations.BatteryPower, Dec(28, 100))


\* the number of hundredths the float64 x stands for
Hundredths(x) == FToInt(FRound(FMul(x, F100)))

\* x is the float64 of a whole number of hundredths
IsHundredths(x) == FEq(x, Dec(Hundredths(x), 100))

\* C11: in every snapshot systemPower equals acPower - batteryPower, taken
\* from the truncated acPower and batteryPower of the snapshot: all three
\* are whole hundredths and the truncation of the difference leaves its
\* hundredths unchanged.
C11_SystemPowerIdentity ==
    (Succeeded /\ pkg = "power") =>
        /\ IsHundredths(Calculations.ACPower)
        /\ IsHundredths(Calculations.BatteryPower)
        /\ FEq(Calculations.SystemPower,
               Dec(Hundredths(Calculations.ACPower)
                     - Hundredths(Calculations.BatteryPower), 100))


\* the input of C11 on which the difference loses a hundredth: acPower 0.30
\* and batteryPower -2.00 give systemPower 2.29
C11_FailingInput ==
    /\ Succeeded
    /\ pkg = "power"
    /\ SourceVoltage = 300 /\ SourceAmperage = 1000
    /\ BatteryVoltage = 1000 /\ BatteryAmperage = -2000
    /\ FEq(Calculations.ACPower, Dec(30, 100))
    /\ FEq(Calculations.BatteryPower, Dec(-200, 100))
    /\ FEq(Calculations.SystemPower, Dec(229, 100))


\* the snapshot's power r is a whole number of hundredths, of the sign of
\* the exact product of the raw values and at most one hundredth short of it
NearProduct(r, microwatts) ==
    LET k == Hundredths(r)
        t == Abs(microwatts) \div 10000
    IN  /\ IsHundredths(r)
        /\ Abs(k) \in {t, t - 1} \cap Nat
        /\ k = 0 \/ (k > 0) = (microwatts > 0)

\* the Calculations of the same record with the design capacity d
WithDesignCapacity(d) ==
    calculateDerivedMetrics(
        [PowerBatteryInfo(c_info) EXCEPT !.Battery.DesignCapacity = d]).Calculations

\* C12: the power-flow fields are computed on every successful invocation,
\* independent of the capacity data: they follow the voltage * amperage
\* products and are what the same record with a positive design capacity
\* gives; with designCapacity <= 0 the health fields stay 0 and the power
\* fields are still set.
C12_PowerIndependentOfCapacity ==
    (Succeeded /\ pkg = "power") =>
        /\ NearProduct(Calculations.ACPower, SourceVoltage * SourceAmperage)
        /\ NearProduct(Calculations.BatteryPower, BatteryVoltage * BatteryAmperage)
        /\ Abs(Hundredths(Calculations.SystemPower)
               - (Hundredths(Calculations.ACPower)
                  - Hundredths(Calculations.BatteryPower))) <= 1
        /\ \A d \in {1, 8579} :
              /\ Calculations.ACPower = WithDesignCapacity(d).ACPower
              /\ Calculations.BatteryPower = WithDesignCapacity(d).BatteryPower
              /\ Calculations.SystemPower = WithDesignCapacity(d).SystemPower
        /\ DesignCapacity <= 0 => HealthAllZero

C12_Witness ==
    /\ Succeeded
    /\ pkg = "power"
    /\ DesignCapacity = 0
    /\ HealthAllZero
    /\ SourceVoltage = 19517 /\ SourceAmperage = 3213
    /\ BatteryVoltage = 11932 /\ BatteryAmperage = 4437
    /\ FEq(Calculations.ACPower, Dec(6270, 100))
    /\ FEq(Calculations.BatteryPower, Dec(5294, 100))
    /\ FEq(Calculations.SystemPower, Dec(976, 100))


\* what the registry entry holds under BatteryData.CellVoltage (Null if
\* there is no such dictionary or key)
RawCellVoltage ==
    LET battery_data == get_dict_prop(registry.properties, "BatteryData")
    IN  IF battery_data.t = "dict"
        THEN CFDictionaryGetValue(battery_data, "CellVoltage")
        ELSE Null

\* C13: for a raw cell-voltage array of n entries the snapshot's sequence
\* has exactly min(n, 16) entries, the first min(n, 16) raw numbers in the
\* same order; the 16-slot buffer keeps its 16 slots, holds that count, and
\* no slot from the count on is written (20 raw entries give exactly 16).
C13_CellVoltagesCutAtSixteen ==
    (Succeeded /\ RawCellVoltage.t = "array") =>
        LET raw == RawCellVoltage.v
            k   == Min2(Len(raw), 16)
        IN  /\ Len(CellVoltages) = k
            /\ \A i \in 1..k : raw[i].t = "num" =>
                              CellVoltages[i] = CFNumberGetValue(raw[i])
            /\ c_info.cell_voltage_count = k
            /\ DOMAIN c_info.cell_voltages = 1..16
            /\ \A i \in (k + 1)..16 : c_info.cell_voltages[i] = Long(0)

C13_Witness ==
    /\ Succeeded
    /\ pkg = "power"
    /\ RawCellVoltage.t = "array"
    /\ Len(RawCellVoltage.v) = 20
    /\ RawCellVoltage.v[17] = Num(4000)
    /\ Len(CellVoltages) = 16
    /\ CellVoltages[1] = Long(3701)
    /\ CellVoltages[16] = Long(3716)


\* the dictionary d holds a value of type t under key
Present(d, key, t) ==
    d.t = "dict" /\ key \in DOMAIN d.v /\ d.v[key].t = t

\* the value of type t under key, or zero when it is missing or mistyped
Expected(d, key, t, zero) == IF Present(d, key, t) THEN d.v[key].v ELSE zero

\* the string under key as a buffer of 256 bytes takes it: a string that
\* does not fit with its terminator leaves the zeroed buffer, ""
ExpectedString(d, key) ==
    LET s == Expected(d, key, "str", "")
    IN  IF Len(s) < 256 THEN s ELSE ""

\* the nested record under name, Null when it is missing or mistyped
Nested(name) ==
    IF Present(registry.properties, name, "dict")
    THEN registry.properties.v[name] ELSE Null

ExpectedCellCount ==
    IF Present(Nested("BatteryData"), "CellVoltage", "array")
    THEN Min2(Len(Nested("BatteryData").v["CellVoltage"].v), 16) ELSE 0

\* every field of the C struct holds the value under its own key, or zero
RawFieldsOptional ==
    LET P  == registry.properties
        AD == Nested("AdapterDetails")
        PT == Nested("PowerTelemetryData")
    IN  /\ c_info.is_charging = (IF Expected(P, "IsCharging", "bool", FALSE) THEN 1 ELSE 0)
        /\ c_info.is_connected = (IF Expected(P, "ExternalConnected", "bool", FALSE) THEN 1 ELSE 0)
        /\ c_info.is_fully_charged = (IF Expected(P, "FullyCharged", "bool", FALSE) THEN 1 ELSE 0)
        /\ c_info.cycle_count = Expected(P, "CycleCount", "num", 0)
        /\ c_info.design_capacity = Expected(P, "DesignCapacity", "num", 0)
        /\ c_info.max_capacity = Expected(P, "AppleRawMaxCapacity", "num", 0)
        /\ c_info.nominal_capacity = Expected(P, "NominalChargeCapacity", "num", 0)
        /\ c_info.current_capacity = Expected(P, "AppleRawCurrentCapacity", "num", 0)
        /\ c_info.time_to_empty = Expected(P, "AvgTimeToEmpty", "num", 0)
        /\ c_info.time_to_full = Expected(P, "AvgTimeToFull", "num", 0)
        /\ c_info.temperature = Expected(P, "Temperature", "num", 0)
        /\ c_info.voltage = Expected(P, "Voltage", "num", 0)
        /\ c_info.amperage = Expected(P, "Amperage", "num", 0)
        /\ c_info.serial_number = ExpectedString(P, "Serial")
        /\ c_info.device_name = ExpectedString(P, "DeviceName")
        /\ c_info.adapter_watts = Expected(AD, "Watts", "num", 0)
        /\ c_info.adapter_voltage = Expected(AD, "AdapterVoltage", "num", 0)
        /\ c_info.adapter_amperage = Expected(AD, "Current", "num", 0)
        /\ c_info.adapter_description = ExpectedString(AD, "Description")
        /\ c_info.source_voltage = Expected(PT, "SystemVoltageIn", "num", 0)
        /\ c_info.source_amperage = Expected(PT, "SystemCurrentIn", "num", 0)
        /\ c_info.cell_voltage_count = ExpectedCellCount

\* the fields package power copies into the snapshot as they are
SnapshotFieldsOptional ==
    LET P  == registry.properties
        AD == Nested("AdapterDetails")
    IN  /\ info.State.IsCharging = Expected(P, "IsCharging", "bool", FALSE)
        /\ info.State.IsConnected = Expected(P, "ExternalConnected", "bool", FALSE)
        /\ info.State.FullyCharged = Expected(P, "FullyCharged", "bool", FALSE)
        /\ info.Battery.SerialNumber = ExpectedString(P, "Serial")
        /\ info.Battery.DeviceName = ExpectedString(P, "DeviceName")
        /\ info.Battery.CycleCount = Expected(P, "CycleCount", "num", 0)
        /\ info.Battery.DesignCapacity = Expected(P, "DesignCapacity", "num", 0)
        /\ info.Battery.MaxCapacity = Expected(P, "AppleRawMaxCapacity", "num", 0)
        /\ info.Battery.NominalCapacity = Expected(P, "NominalChargeCapacity", "num", 0)
        /\ info.Battery.CurrentCapacity = Expected(P, "AppleRawCurrentCapacity", "num", 0)
        /\ info.Battery.TimeToEmpty = Expected(P, "AvgTimeToEmpty", "num", 0)
        /\ info.Battery.TimeToFull = Expected(P, "AvgTimeToFull", "num", 0)
        /\ info.Adapter.MaxWatts = Expected(AD, "Watts", "num", 0)
        /\ info.Adapter.Description = ExpectedString(AD, "Description")
        /\ Len(info.Battery.IndividualCellVoltages) = ExpectedCellCount

\* C14: every field read is optional: a key that is missing or holds a
\* value of another type gives that field's zero value (0, false, "",
\* empty sequence) and each other field keeps the value under its own key;
\* a missing nested record gives zero for every field read from it, the
\* cell-voltage count included.
C14_FieldsOptional ==
    Succeeded =>
        /\ RawFieldsOptional
        /\ pkg = "power" => SnapshotFieldsOptional
        /\ Len(CellVoltages) = ExpectedCellCount

C14_Witness ==
    /\ Succeeded
    /\ pkg = "power"
    /\ "AdapterDetails" \notin DOMAIN registry.properties.v
    /\ Present(registry.properties, "IsCharging", "bool")
    /\ info.Adapter.MaxWatts = 0
    /\ info.Adapter.Description = ""
    /\ FEq(info.Adapter.MaxVoltage, F0)
    /\ info.Battery.CycleCount = 180
    /\ Len(info.Battery.IndividualCellVoltages) = 3


TimeToEmpty ==
    IF pkg = "power" THEN info.Battery.TimeToEmpty ELSE info.Charge.TimeToEmpty

TimeToFull ==
    IF pkg = "power" THEN info.Battery.TimeToFull ELSE info.Charge.TimeToFull

\* the Calculations of the same snapshot with other time estimates
WithTimes(e, f) ==
    IF pkg = "power"
    THEN calculateDerivedMetrics(
             PowerBatteryInfo([c_info EXCEPT !.time_to_empty = e,
                                             !.time_to_full = f])).Calculations
    ELSE calculateHealthMetrics(
             IokitBatteryInfo([c_info EXCEPT !.time_to_empty = e,
                                             !.time_to_full = f])).Calculations

\* C15: timeToEmpty and timeToFull of the snapshot are the raw values for
\* every raw value, 65535 included (no special handling of the sentinel),
\* and no derived metric depends on them.
C15_SentinelPassthrough ==
    Succeeded =>
        /\ TimeToEmpty = Expected(registry.properties, "AvgTimeToEmpty", "num", 0)
        /\ TimeToFull = Expected(registry.properties, "AvgTimeToFull", "num", 0)
        /\ \A e \in {0, 65535} : Calculations = WithTimes(e, 65535 - e)

C15_Witness ==
    /\ Succeeded
    /\ pkg = "power"
    /\ Present(registry.properties, "AvgTimeToEmpty", "num")
    /\ Present(registry.properties, "AvgTimeToFull", "num")
    /\ registry.properties.v["AvgTimeToEmpty"].v = 65535
    /\ registry.properties.v["AvgTimeToFull"].v = 65535
    /\ TimeToEmpty = 65535
    /\ TimeToFull = 65535


\* the converted fields of the snapshot: <<value, raw integer, scale>>
Conversions ==
    IF pkg = "power"
    THEN {<<info.Battery.Temperature, c_info.temperature, 100>>,
          <<info.Battery.Voltage, c_info.voltage, 1000>>,
          <<info.Battery.Amperage, c_info.amperage, 1000>>,
          <<info.Adapter.MaxVoltage, c_info.adapter_voltage, 1000>>,
          <<info.Adapter.MaxAmperage, c_info.adapter_amperage, 1000>>,
          <<info.Adapter.InputVoltage, c_info.source_voltage, 1000>>,
          <<info.Adapter.InputAmperage, c_info.source_amperage, 1000>>}
    ELSE {<<info.Battery.Temperature, c_info.temperature, 100>>,
          <<info.Power.Voltage, c_info.voltage, 1000>>,
          <<info.Power.Amperage, c_info.amperage, 1000>>,
          <<info.Adapter.Voltage, c_info.adapter_voltage, 1000>>,
          <<info.Adapter.Amperage, c_info.adapter_amperage, 1000>>,
          <<info.PowerSourceInput.Voltage, c_info.source_voltage, 1000>>,
          <<info.PowerSourceInput.Amperage, c_info.source_amperage, 1000>>}

\* C16 as stated: every converted field times its scale (100 for the
\* temperature, 1000 for the voltages and amperages) equals the raw integer,
\* for every raw value.
C16_Original ==
    Succeeded =>
        \A c \in Conversions :
            FEq(FMul(c[1], FFromInt(c[3])), FFromInt(c[2]))

\* -1, 0, 1 as the finite a is <, =, > the fraction (100 * raw + off) /
\* (100 * scale), the numerator a 64-bit value, 0 < 100 * scale < 2^19
FCmpHundredths(a, raw, off, scale) ==
    LET n  == LongSum([s |-> Long(raw).s, m |-> BMulSmall(Long(raw).m, 100)],
                      Long(off))
        sa == IF a.m = <<>> THEN 0 ELSE a.s
        sn == IF n.m = <<>> THEN 0 ELSE n.s
        x  == BMulSmall(a.m, 100 * scale)
    IN  IF sa # sn THEN (IF sa < sn THEN -1 ELSE 1)
        ELSE IF sa = 0 THEN 0
        ELSE IF a.e >= 0 THEN sa * BCmp(BShl(x, a.e), n.m)
        ELSE sa * BCmp(x, BShl(n.m, -a.e))

\* 2001 + 2^-42, the float64 next above 2001 (2001.0000000000002)
AboveF2001 == FCanon(1, BAdd(BShl(BFromNat(2001), 42), <<1>>), -42)
\* -(1001 - 2^-43), the float64 next above -1001 (-1000.9999999999999)
AboveFMinus1001 == FCanon(-1, BSub(BShl(BFromNat(1001), 43), <<1>>), -43)

\* C16: for every raw value of magnitude below 2^31, every converted field
\* is the float64 of raw / scale (raw 11353 mV gives 11.353 V): it lies
\* within a hundred-thousandth of the scale of the exact quotient, and
\* value * scale rounded to the nearest integer is the raw integer.  The
\* product itself can miss the raw integer in its last place: 20.01 * 100
\* is 2001.0000000000002 and -1.001 * 1000 is -1000.9999999999999.
C16_ConversionToFloatPrecision ==
    Succeeded =>
        /\ \A c \in Conversions :
              /\ c[2] \in -2147483647..2147483647
              /\ c[1].k = "fin"
              /\ FCmpHundredths(c[1], c[2], -1, c[3]) > 0
              /\ FCmpHundredths(c[1], c[2], 1, c[3]) < 0
              /\ FToInt(FRound(FMul(c[1], FFromInt(c[3])))) = c[2]
        /\ (pkg = "power" /\ c_info.voltage = 11353) =>
              FEq(info.Battery.Voltage, Dec(11353, 1000))
        /\ (pkg = "power" /\ c_info.temperature = 2001) =>
              FEq(FMul(info.Battery.Temperature, F100), AboveF2001)
        /\ (pkg = "power" /\ c_info.amperage = -1001) =>
              FEq(FMul(info.Battery.Amperage, F1000), AboveFMinus1001)

C16_Witness ==
    /\ Succeeded
    /\ pkg = "power"
    /\ c_info.temperature = 2001
    /\ c_info.amperage = -1001
    /\ c_info.voltage = 11353
    /\ c_info.adapter_voltage = 2147483647
    /\ c_info.adapter_amperage = -2147483647
    /\ FEq(info.Battery.Voltage, Dec(11353, 1000))
    /\ FEq(info.Battery.Temperature, Dec(2001, 100))
    /\ FEq(FMul(info.Battery.Temperature, F100), AboveF2001)
    /\ FEq(FMul(info.Battery.Amperage, F1000), AboveFMinus1001)
    /\ ~FEq(FMul(info.Battery.Temperature, F100), FFromInt(2001))
    /\ FToInt(FRound(FMul(info.Battery.Temperature, F100))) = 2001
    /\ FToInt(FRound(FMul(info.Adapter.MaxVoltage, F1000))) = 2147483647
    /\ FToInt(FRound(FMul(info.Adapter.MaxAmperage, F1000))) = -2147483647


\* C17: ACPower is zero whenever the adapter is not connected
\* (State.IsConnected is false), for every record the reader can return.
C17_NoAcPowerWhenDisconnected ==
    (Succeeded /\ pkg = "power" /\ ~info.State.IsConnected) =>
        FEq(Calculations.ACPower, F0)

\* the input of C17: the record of the first README's example, not
\* connected while the power source input reads 20.188 V and 0.005 A
C17_FailingInput ==
    /\ Succeeded
    /\ pkg = "power"
    /\ Present(registry.properties, "ExternalConnected", "bool")
    /\ ~registry.properties.v["ExternalConnected"].v
    /\ ~info.State.IsConnected
    /\ SourceVoltage = 20188 /\ SourceAmperage = 5
    /\ FEq(Calculations.ACPower, Dec(10, 100))


\* C18: with a non-negative battery voltage, batteryPower is never negative
\* when the amperage is positive (charging) and never positive when it is
\* negative (discharging); it is strictly positive, respectively strictly
\* negative, whenever |voltage * amperage| is at least 0.01 W.
C18_BatteryPowerSign ==
    (Succeeded /\ pkg = "power" /\ BatteryVoltage >= 0) =>
        LET r     == Calculations.BatteryPower
            large == BatteryVoltage * Abs(BatteryAmperage) >= 10000
        IN  /\ r.k = "fin"
            /\ BatteryAmperage > 0 => FLe(F0, r)
            /\ BatteryAmperage < 0 => FLe(r, F0)
            /\ (BatteryAmperage > 0 /\ large) => ~FLe(r, F0)
            /\ (BatteryAmperage < 0 /\ large) => ~FLe(F0, r)

C18_Witness ==
    /\ Succeeded
    /\ pkg = "power"
    /\ BatteryVoltage = 11353
    /\ BatteryAmperage = -920
    /\ FEq(Calculations.BatteryPower, Dec(-1044, 100))


\* the reason a failure code of the reader stands for
ReasonOfCode(code) ==
    CASE code \in {1, 2} -> "service-class-not-found"
      [] code = 3 -> "no-matching-device"
      [] code = 4 -> "property-fetch-failed"
      [] OTHER -> "none"

\* the reason of the first step of the query that fails on the registry
ReasonOfStep ==
    IF ~registry.matching \/ ~registry.services THEN "service-class-not-found"
    ELSE IF ~registry.battery THEN "no-matching-device"
    ELSE IF ~registry.result \/ registry.properties.t = "null"
    THEN "property-fetch-failed"
    ELSE "none"

\* C19: every failure of the reader is reported as exactly one of the
\* reasons service-class-not-found (codes 1 and 2), no-matching-device
\* (code 3) and property-fetch-failed (code 4), the reason of the step that
\* failed, and the error returned to the caller carries the code of that
\* reason; a query no step of which fails returns no error.
C19_FailureReasons ==
    pkg # "none" =>
        IF ReasonOfStep = "none"
        THEN err = Nil /\ info # Nil
        ELSE /\ info = Nil
             /\ err # Nil
             /\ err.format = "IOKit query failed with C error code: %d"
             /\ err.arg \in 1..4
             /\ err.arg = ReaderCode
             /\ ReasonOfCode(err.arg) = ReasonOfStep

\* C19 of the calls that return: the reasons and codes of the reader are
\* those of the step that failed
C19_ReturnedFailureReasons ==
    (pkg # "none" /\ ~aborted) =>
        IF ReasonOfStep = "none"
        THEN err = Nil /\ info # Nil
        ELSE /\ info = Nil
             /\ err # Nil
             /\ err.format = "IOKit query failed with C error code: %d"
             /\ err.arg \in 1..4
             /\ err.arg = ReaderCode
             /\ ReasonOfCode(err.arg) = ReasonOfStep

\* the input of C19: the service lookup fails in package iokit, the reader
\* releases the consumed matching dictionary again and the process is
\* ended inside the call: no reason reaches the caller
C19_FailingInput ==
    /\ pkg = "iokit"
    /\ registry.matching /\ ~registry.services
    /\ aborted
    /\ info = Nil
    /\ err = Nil


\* how often the last query did kind ("acquire" or "release") to object
Count(kind, object) ==
    Cardinality({i \in DOMAIN events : events[i] = <<kind, object>>})

\* the platform objects the last query touched
Objects == {events[i][2] : i \in DOMAIN events}

\* every object touched was acquired once and released once, afterwards
ReleasedExactlyOnce ==
    \A o \in Objects :
        /\ Count("acquire", o) = 1
        /\ Count("release", o) = 1
        /\ (CHOOSE i \in DOMAIN events : events[i] = <<"acquire", o>>)
              < (CHOOSE j \in DOMAIN events : events[j] = <<"release", o>>)

\* C20: on every return path of get_all_battery_info (success and each
\* failure code) every platform object acquired for the query, the matching
\* dictionary, the iterator, the battery service, the properties dictionary
\* and each key string of the helpers, has been released exactly once, the
\* service lookup always consuming the matching dictionary.
C20_ReleasedExactlyOnce == pkg # "none" => ReleasedExactlyOnce

\* package power releases every object exactly once on every path
C20_PowerReleasesExactlyOnce == pkg = "power" => ReleasedExactlyOnce

\* the input of C20: the service lookup fails in package iokit and the
\* matching dictionary, consumed by the lookup, is released a second time
C20_FailingInput ==
    /\ pkg = "iokit"
    /\ registry.matching /\ ~registry.services
    /\ ~aborted
    /\ err # Nil /\ err.arg = 2
    /\ Count("acquire", "matching") = 1
    /\ Count("release", "matching") = 2


\* what a first call of the same package returns on the record of the last
FirstCall ==
    IF pkg = "power" THEN PowerGetBatteryInfo(registry)
    ELSE IokitGetBatteryInfo(registry, "unnoticed")

\* C21: invocations are independent and deterministic: what a call returns
\* (where it returns) depends only on the record it fetches, so a later
\* call returns what a first call returns on an equal record, whatever the
\* earlier calls fetched; fields absent from the record of the call are
\* zero and carry nothing over.
C21_InvocationsIndependent ==
    (pkg # "none" /\ ~aborted) =>
        /\ info = FirstCall.info
        /\ err = FirstCall.err
        /\ Succeeded =>
              /\ RawFieldsOptional
              /\ Len(CellVoltages) = ExpectedCellCount
              /\ c_info.cell_voltages
                   = get_all_battery_info(registry, ZeroCInfo).info.cell_voltages

C21_Witness ==
    /\ calls = 2
    /\ pkg = "power"
    /\ Succeeded
    /\ DOMAIN registry.properties.v = {}
    /\ info.Adapter.MaxWatts = 0
    /\ info.Battery.CycleCount = 0
    /\ info.Battery.IndividualCellVoltages = <<>>
    /\ c_info = ZeroCInfo


\* the raw array's entries the helper reads: the first 16 at most
RawCellsRead ==
    SubSeq(RawCellVoltage.v, 1, Min2(Len(RawCellVoltage.v), MaxCells))

\* C22: an entry of the raw cell-voltage array that is not a number is
\* stored as 0 at its own index, the later entries are not shifted and the
\* count is not reduced; that 0 takes part in the drift like a voltage, so a
\* record with at least 2 entries, one mistyped and one above 50 mV, gets
\* the -10.0 modifier.
C22_MistypedCellIsZero ==
    (Succeeded /\ RawCellVoltage.t = "array") =>
        LET raw == RawCellsRead
        IN  /\ Len(CellVoltages) = Len(raw)
            /\ \A i \in 1..Len(raw) :
                  CellVoltages[i] = IF raw[i].t = "num"
                                 THEN CFNumberGetValue(raw[i]) ELSE Long(0)
            /\ ( /\ DesignCapacity > 0
                 /\ Len(raw) >= 2
                 /\ \E i \in 1..Len(raw) : raw[i].t # "num"
                 /\ \E j \in 1..Len(raw) :
                       /\ raw[j].t = "num"
                       /\ LongLess(Long(50), CFNumberGetValue(raw[j])) )
               => RoundsHalfAway(Calculations.ConditionAdjustedHealth,
                                 AdjustedPercentage(-20))

\* C22 without the modifier: the entry that is no number is 0 at its index
C22_MistypedStoredAsZero ==
    (Succeeded /\ RawCellVoltage.t = "array") =>
        LET raw == RawCellsRead
        IN  /\ Len(CellVoltages) = Len(raw)
            /\ \A i \in 1..Len(raw) :
                  CellVoltages[i] = IF raw[i].t = "num"
                                 THEN CFNumberGetValue(raw[i]) ELSE Long(0)

\* the input of C22: 51, an entry that is no number and -2^63; the cells
\* are 51, 0, -2^63, the 64-bit difference 51 - (-2^63) is negative and the
\* switch takes its first case, +2.5
C22_FailingInput ==
    /\ Succeeded
    /\ pkg = "power"
    /\ DesignCapacity = 8579
    /\ NominalCapacity = 7945
    /\ RawCellVoltage = Arr(<<Num(51), Str("x"), Num64(MinInt64)>>)
    /\ CellVoltages = <<Long(51), Long(0), MinInt64>>
    /\ Calculations.HealthByNominalCapacity = 93
    /\ Calculations.ConditionAdjustedHealth = 95

\* conditionAdjustedHealth - healthByNominalCapacity of the snapshot
HealthDifference ==
    Calculations.ConditionAdjustedHealth - Calculations.HealthByNominalCapacity

\* the differences the statement gives for twice the modifier m2
StatedDifferences(m2) ==
    CASE m2 = 5 -> {2, 3}
      [] m2 = 2 -> {1}
      [] m2 = 0 -> {0}
      [] m2 = -4 -> {-2}
      [] m2 = -20 -> {-10}

\* the differences met where 100 * nominal / design is an odd number of
\* halves: rounding half away from zero is not shifted by the modifier
\* across zero, and the float64 percentage may lie just off the half
HalfwayDifferences(m2) ==
    CASE m2 = 5 -> {2, 3}
      [] m2 = 2 -> {1, 2}
      [] m2 = 0 -> {0}
      [] m2 = -4 -> {-2, -3}
      [] m2 = -20 -> {-10, -11}

\* C23 as stated: with designCapacity > 0 the difference
\* conditionAdjustedHealth - healthByNominalCapacity lies in -10..3: 0 for
\* the modifier 0.0, 1 for +1.0, -2 for -2.0, -10 for -10.0, 2 or 3 for +2.5.
C23_Original ==
    (Succeeded /\ DesignCapacity > 0) =>
        /\ HealthDifference \in -10..3
        /\ HealthDifference \in StatedDifferences(AppliedModifier2)

\* C23: with designCapacity > 0, and designCapacity and nominalCapacity of
\* magnitude at most 1000000, the difference conditionAdjustedHealth -
\* healthByNominalCapacity lies in -11..3; it is 0 for the modifier 0.0, 1
\* for +1.0, -2 for -2.0, -10 for -10.0 and 2 or 3 for +2.5 whenever
\* 100 * nominalCapacity / designCapacity is not an odd number of halves;
\* where it is, +1.0 may give 2, -2.0 may give -3 and -10.0 may give -11.
C23_HealthDifference ==
    (/\ Succeeded
     /\ DesignCapacity > 0
     /\ DesignCapacity <= 1000000
     /\ Abs(NominalCapacity) <= 1000000) =>
        /\ HealthDifference \in -11..3
        /\ HealthDifference \in HalfwayDifferences(AppliedModifier2)
        /\ ~IsTie(100 * NominalCapacity, DesignCapacity)
              => HealthDifference \in StatedDifferences(AppliedModifier2)

C23_Witness ==
    /\ Succeeded
    /\ pkg = "power"
    /\ DesignCapacity = 200
    /\ NominalCapacity = 1
    /\ CellVoltages = Longs(<<3751, 3700>>)
    /\ AppliedModifier2 = -20
    /\ Calculations.HealthByNominalCapacity = 1
    /\ Calculations.ConditionAdjustedHealth = -10
    /\ HealthDifference = -11


\* ------------------------------------------------------------------------
\* Queries on records whose cell voltages reach the ends of the 64 bits.
\* ------------------------------------------------------------------------
WideCellCases ==
    {Arr(<<Num64(MaxInt64), Num(-1)>>),
     Arr(<<Num(0), Num64(MaxInt64)>>),
     Arr(<<Num64(MinInt64), Num64(MaxInt64)>>),
     Arr(<<Num64(MaxInt64), Num64(LongSum(MaxInt64, Long(-3)))>>),
     Arr(<<Num(51), Str("x"), Num64(MinInt64)>>),
     Arr(<<Num64(MaxInt64)>>),
     Nums(<<3700, 3751>>), Nums(<<3700, 3730>>), Nums(<<3705, 3700>>)}

WideRegistries ==
    {Found(Dict(Props(cap, cells, ReadmeBattery, ReadmeSource, TRUE))) :
        cap \in CapCases \cup {HalfwayCap}, cells \in WideCellCases}

WideCallPower ==
    /\ calls = 0
    /\ \E reg \in WideRegistries : Returns("power", reg, PowerGetBatteryInfo(reg))

WideCallIokit ==
    /\ calls = 0
    /\ \E reg \in WideRegistries :
          \E release \in (IF IokitReleasesFreed(reg)
                          THEN ReleaseOutcomes ELSE {"unnoticed"}) :
             Returns("iokit", reg, IokitGetBatteryInfo(reg, release))

WideNext == WideCallPower \/ WideCallIokit

WideSpec == Init /\ [][WideNext]_vars

\* C24: findMinMax is only reached with a slice of at least 2 elements; it
\* returns min <= every element <= max, both taken from the slice; the drift
\* max - min the modifier is chosen by is never negative.
C24_DriftNeverNegative ==
    (Succeeded /\ "findMinMax" \in Range(steps)) =>
        /\ Len(CellVoltages) >= 2
        /\ \A i \in 1..Len(CellVoltages) :
              LongLe(MinMax.min, CellVoltages[i]) /\ LongLe(CellVoltages[i], MinMax.max)
        /\ MinMax.min \in Range(CellVoltages)
        /\ MinMax.max \in Range(CellVoltages)
        /\ LongLe(Long(0), LongSub(MinMax.max, MinMax.min))

\* C24 without the sign of the drift: the call and the result of findMinMax
C24_MinMaxOfTheSlice ==
    (Succeeded /\ "findMinMax" \in Range(steps)) =>
        /\ Len(CellVoltages) >= 2
        /\ \A i \in 1..Len(CellVoltages) :
              LongLe(MinMax.min, CellVoltages[i]) /\ LongLe(CellVoltages[i], MinMax.max)
        /\ MinMax.min \in Range(CellVoltages)
        /\ MinMax.max \in Range(CellVoltages)

\* the input of C24: the cells 2^63 - 1 and -1 differ by 2^63, the 64-bit
\* difference is -2^63 and the switch takes its first case, +2.5
C24_FailingInput ==
    /\ Succeeded
    /\ pkg = "power"
    /\ DesignCapacity = 8579
    /\ NominalCapacity = 7945
    /\ CellVoltages = <<MaxInt64, Long(-1)>>
    /\ LongSub(MinMax.max, MinMax.min) = MinInt64
    /\ Calculations.HealthByNominalCapacity = 93
    /\ Calculations.ConditionAdjustedHealth = 95


\* the health fields the package derives for the record of the snapshot
\* with other cell voltages
WithCells(cells) ==
    IF pkg = "power"
    THEN calculateDerivedMetrics(
             [PowerBatteryInfo(c_info) EXCEPT
                 !.Battery.IndividualCellVoltages = cells]).Calculations
    ELSE calculateHealthMetrics(
             [IokitBatteryInfo(c_info) EXCEPT
                 !.Battery.IndividualCellVoltages = cells]).Calculations

\* cell voltages to compare with: every band of the table and its borders
NarrowCells ==
    {<<Long(3700), Long(3700 + d)>> : d \in {0, 5, 6, 15, 16, 30, 31, 50, 51, 1000}}
    \cup {<<Long(3800), Long(3790), Long(3770)>>}

\* and pairs whose difference does not fit 64 bits
OtherCells == NarrowCells \cup {<<MaxInt64, Long(-1)>>, <<Long(0), MaxInt64>>}

\* the record of the snapshot against the same record with the cells other
NoHigherForLargerDrift(other) ==
    /\ LongLess(Drift, Spread(other)) =>
          WithCells(other).ConditionAdjustedHealth
              <= Calculations.ConditionAdjustedHealth
    /\ LongLess(Spread(other), Drift) =>
          Calculations.ConditionAdjustedHealth
              <= WithCells(other).ConditionAdjustedHealth

\* C25: for fixed designCapacity > 0 and nominalCapacity, of two records
\* with at least 2 cell voltages the one with the larger drift max - min
\* never has the higher conditionAdjustedHealth.
C25_MonotoneInDrift ==
    (Succeeded /\ DesignCapacity > 0 /\ Len(CellVoltages) >= 2) =>
        \A other \in OtherCells : NoHigherForLargerDrift(other)

\* C25 among records whose drift fits 64 bits
C25_MonotoneWithoutWrap ==
    (Succeeded /\ DesignCapacity > 0 /\ Len(CellVoltages) >= 2
       /\ LongLe(Drift, MaxInt64)) =>
        \A other \in OtherCells :
            LongLe(Spread(other), MaxInt64) => NoHigherForLargerDrift(other)

\* the input of C25: the cells 2^63 - 1 and -1, drift 2^63, get +2.5 and
\* the same record with the cells 3700 and 3751, drift 51, gets -10.0
C25_FailingInput ==
    /\ Succeeded
    /\ pkg = "power"
    /\ DesignCapacity = 8579
    /\ NominalCapacity = 7945
    /\ CellVoltages = <<MaxInt64, Long(-1)>>
    /\ Calculations.ConditionAdjustedHealth = 95
    /\ WithCells(<<Long(3700), Long(3751)>>).ConditionAdjustedHealth = 83
    /\ LongLess(Spread(<<Long(3700), Long(3751)>>), Drift)

====
